---- MODULE Spec2Model ----
(***************************************************************************)
(* spurs: running commands on a remote machine over SSH.                   *)
(*                                                                         *)
(* The repository holds three revisions of the same design:                *)
(*   "old"  src/src/ssh.rs         spawn shares the shell's session        *)
(*   "mid"  src/spurs/src/ssh.rs   spawn opens a second shell, the task    *)
(*                                  holds a clone of its session reference *)
(*   "new"  src/spurs/src/lib.rs   spawn opens a second shell and moves it *)
(*                                  into the task; join hands it back      *)
(* The variable rev says which revision a behaviour is a behaviour of.     *)
(*                                                                         *)
(* Strings are sequences of one-character strings.                         *)
(***************************************************************************)
EXTENDS Integers, Sequences, FiniteSets, TLC

VARIABLES
    rev,      \* the revision of the code: "old", "mid" or "new"
    shells,   \* shell id -> SshShell (live, sess, dry_run_mode, held)
    lock,     \* session id -> the state of the Mutex around the session
    inv,      \* slot -> the invocation (run call or spawned task) of that slot
    nspawn,   \* number of slots handed out by spawn and from_existing
    session,  \* session id -> the Session inside the Mutex of that id
    net       \* the remote: whether it accepts connections, and how many
              \* connections of reconnect it has accepted

vars == <<rev, shells, lock, inv, nspawn, session, net>>

----------------------------------------------------------------------------
(* Bounds of the model *)

\* spawned background tasks in one behaviour of Spec
MaxSpawn == 2

\* spawned background tasks in one behaviour of SpecDry and of SpecJoin
MaxJoinSpawn == 1

\* threads that call the API on shells they share
NumCallers == 2

\* connections that reconnect calls establish in one behaviour
MaxReconnect == 2

\* connect attempts of one reconnect call that are counted
MaxTries == 2

\* builder calls made on one command
MaxBuild == 3

\* length of the strings given to escape_for_bash
MaxLen == 3

Revs == {"old", "mid", "new"}

Callers == 1..NumCallers
Tasks == (NumCallers + 1)..(NumCallers + MaxSpawn)
Slots == Callers \cup Tasks

\* shell 0 is the shell the callers start with; the shell that spawn opens for
\* the task of slot k has id k, and so has its session
ShellIds == {0} \cup Tasks

\* the transport that the n-th successful connect of reconnect opens; in
\* src/src/ssh.rs also the id of the Arc<Mutex<Session>> it makes
ReconnId(n) == NumCallers + MaxSpawn + n

ReconnIds == ReconnId(1)..ReconnId(MaxReconnect)

\* ids of transports and of sessions
ConnIds == ShellIds \cup ReconnIds

----------------------------------------------------------------------------
(* Strings *)

S_ls == <<"l", "s">>
S_quote == <<"i", "'", "s">>
S_dir == <<"/", "t">>
S_bash_c == <<"b", "a", "s", "h", " ", "-", "c", " ">>
S_cd == <<"c", "d", " ">>
S_semi == <<" ", ";", " ">>

AsciiAlnum == {"a", "b", "c", "d", "h", "i", "l", "s", "t", "o", "e"}

\* the character U+0060, which a TLA+ string cannot hold on its own
Backtick == "<U+0060>"

None == <<>>
Some(v) == <<v>>

----------------------------------------------------------------------------
(* SshCommand and its builders *)

\* use_bash is on by default
SshCommand_new_bash(text) ==
    [cmd |-> text, cwd |-> None, use_bash |-> TRUE, allow_error |-> FALSE,
     dry_run |-> FALSE, no_pty |-> FALSE]

SshCommand_new(text) ==
    [cmd |-> text, cwd |-> None, use_bash |-> FALSE, allow_error |-> FALSE,
     dry_run |-> FALSE, no_pty |-> FALSE]

\* the directory change is written into the text
cwd_into_text(c, p) == [c EXCEPT !.cmd = <<"c", "d", " ">> \o p \o <<" ", ";", " ">> \o @]

cwd(c, p) == [c EXCEPT !.cwd = Some(p)]

\* the other fields are built anew instead of taken from self
use_bash_from_new(c) == [SshCommand_new_bash(c.cmd) EXCEPT !.allow_error = c.allow_error]

use_bash(c) == [c EXCEPT !.use_bash = TRUE]

\* the flag is flipped instead of set
allow_error_flips(c) == [c EXCEPT !.allow_error = ~@]

allow_error(c) == [c EXCEPT !.allow_error = TRUE]

dry_run(c, is_dry) == [c EXCEPT !.dry_run = is_dry]

no_pty(c) == [c EXCEPT !.no_pty = TRUE]

\* every value the builders can produce over the given texts and directories
CommandsOver(texts, dirs) ==
    [cmd : texts, cwd : {None} \cup {Some(d) : d \in dirs}, use_bash : BOOLEAN,
     allow_error : BOOLEAN, dry_run : BOOLEAN, no_pty : BOOLEAN]

----------------------------------------------------------------------------
(* Escaping for bash *)

RECURSIVE QuoteChars_backslash(_)
\* a single quote becomes '\'' (close, escaped quote, reopen)
QuoteChars_backslash(s) ==
    IF s = <<>> THEN <<>>
    ELSE (IF Head(s) = "'" THEN <<"'", "\\", "'", "'">> ELSE <<Head(s)>>)
         \o QuoteChars_backslash(Tail(s))

\* the single quote is copied like any other character
QuoteChars_unquoted(s) == s

RECURSIVE QuoteChars(_)
\* the loop of escape_for_bash over the characters of s
QuoteChars(s) ==
    IF s = <<>> THEN <<>>
    ELSE (IF Head(s) = "'" THEN <<"'", "\"", "'", "\"", "'">> ELSE <<Head(s)>>)
         \o QuoteChars(Tail(s))

\* src/spurs/src/util.rs, src/src/util.rs: wrap in single quotes
escape_for_bash(s) == <<"'">> \o QuoteChars(s) \o <<"'">>

RECURSIVE escape_for_bash_backslash(_)
\* src/spurs/src/lib.rs: a backslash before every non-alphanumeric character
escape_for_bash_backslash(s) ==
    IF s = <<>> THEN <<>>
    ELSE (IF Head(s) \in AsciiAlnum THEN <<Head(s)>> ELSE <<"\\", Head(s)>>)
         \o escape_for_bash_backslash(Tail(s))

\* the escaping function run_with_chan_and_opts calls in revision r
Escape(r, s) == IF r = "new" THEN escape_for_bash_backslash(s) ELSE escape_for_bash(s)

\* the directory change is put inside the bash -c argument
RewriteCmd_cd_inside_bash(r, c) ==
    LET moved == IF c.cwd # None THEN S_cd \o c.cwd[1] \o S_semi \o c.cmd ELSE c.cmd
    IN  IF c.use_bash THEN S_bash_c \o Escape(r, moved) ELSE moved

\* run_with_chan_and_opts: the string handed to exec
RewriteCmd(r, c) ==
    LET bashed == IF c.use_bash THEN S_bash_c \o Escape(r, c.cmd) ELSE c.cmd
    IN  IF c.cwd # None THEN S_cd \o c.cwd[1] \o S_semi \o bashed ELSE bashed

\* run_with_chan_and_opts: the message printed
DisplayMsg(c) == c.cmd

----------------------------------------------------------------------------
(* Results *)

Ok(out, err) == [tag |-> "Ok", stdout |-> out, stderr |-> err]

\* SshError::NonZeroExit { cmd, exit }
NonZeroExit(c, e) == [cmd |-> c, tag |-> "NonZeroExit", exit |-> e]

\* an ssh2 or I/O error propagated by `?` from the named call
SshErr(op) == [tag |-> "SshError", at |-> op]

\* the calling thread panicked (an unwrap of an Err)
Panic == [tag |-> "Panic"]

\* spawn returned a handle to the task of slot k
Handle(k) == [tag |-> "Handle", task |-> k]

NoResult == [tag |-> "None"]

\* SshError::AuthFailed { key }
AuthFailed(key) == [tag |-> "AuthFailed", key |-> key]

\* Ok(()) of reconnect
OkUnit == [tag |-> "Unit"]

\* Ok(SshShell { .. }): the shell of slot k was returned
OkShell(k) == [tag |-> "Shell", shell |-> k]

----------------------------------------------------------------------------
(* The remote side of one channel: what the channel's calls will return *)

NUL == "NUL"          \* the byte 0
BAD == "xFF"          \* a byte that is not valid UTF-8
LEAD == "xC3"         \* the first byte of a two-byte character
CONT == "xA9"         \* the second byte of that character
EACUTE == "u00E9"     \* the character the bytes C3 A9 encode
REPLACEMENT == "uFFFD"

\* let mut buf = [0; 256]
BufSize == 256

NoFail == "none"

Script(out, err, exit, fail) == [out |-> out, err |-> err, exit |-> exit, fail |-> fail]

NoScript == Script(<<>>, <<>>, 0, NoFail)

\* the buffer is as long as its last byte that may differ from zero: this is
\* the array [u8; 256] with that start and zeros after it
Buffer(b) == [i \in 1..BufSize |-> IF i <= Len(b) THEN b[i] ELSE NUL]

\* chan.read(&mut buf): the chunk is copied to the front of the buffer
FillBuf(b, chunk) ==
    [i \in 1..BufSize |-> IF i <= Len(chunk) THEN chunk[i] ELSE Buffer(b)[i]]

\* the buffer is left as the read filled it
ClearBuf_keeps(b) == b

\* buf.iter_mut().for_each(|x| *x = 0)
ClearBuf(b) == <<>>

\* the bytes at i start a character or are the second byte of one
Encoded(bytes, i) ==
    \/ bytes[i] \notin {BAD, LEAD, CONT}
    \/ bytes[i] = LEAD /\ i < Len(bytes) /\ bytes[i + 1] = CONT
    \/ bytes[i] = CONT /\ i > 1 /\ bytes[i - 1] = LEAD

\* std::str::from_utf8(bytes).is_ok()
ValidUtf8(bytes) == \A i \in 1..Len(bytes) : Encoded(bytes, i)

\* String::from_utf8_lossy: every character decoded, U+FFFD for every byte that
\* is part of none; "" stands for the second byte of a character, which gives
\* nothing of its own
from_utf8_lossy(bytes) ==
    LET image(i) == IF ~Encoded(bytes, i) THEN REPLACEMENT
                    ELSE IF bytes[i] = LEAD THEN EACUTE
                    ELSE IF bytes[i] = CONT THEN ""
                    ELSE bytes[i]
        given(c) == c # ""
    IN  SelectSeq([i \in 1..Len(bytes) |-> image(i)], given)

\* str::trim_end_matches('\u{0}')
trim_end_matches_nul(s) ==
    LET keep == {i \in 1..Len(s) : s[i] # NUL}
    IN  IF keep = {} THEN <<>>
        ELSE SubSeq(s, 1, CHOOSE i \in keep : \A j \in keep : j <= i)

\* the text one iteration of a read loop appends, the buffer being bytes
DecodeBuf(bytes) == trim_end_matches_nul(from_utf8_lossy(bytes))

\* the text appended for a chunk that was read into a zeroed buffer
DecodeChunk(chunk) == DecodeBuf(FillBuf(<<>>, chunk))

\* revision "old" decodes with str::from_utf8(&buf).unwrap()
DecodePanics(r, bytes) == r = "old" /\ ~ValidUtf8(bytes)

----------------------------------------------------------------------------
(* State *)

\* std::sync::Mutex: free, held by the thread of a slot, or poisoned by a
\* thread that panicked while holding it
Unlocked == [state |-> "free", by |-> 0]
HeldBy(x) == [state |-> "held", by |-> x]
Poisoned == [state |-> "poisoned", by |-> 0]

\* a libssh2 session: the transport it did its handshake over, and whether
\* the remote has authenticated it
NoSession == [made |-> FALSE, over |-> 0, authed |-> FALSE]

\* the handshake is done over the transport the shell was made with
Handshook_first_transport(tcp) == [made |-> TRUE, over |-> 0, authed |-> FALSE]

\* Session::new() and sess.handshake(&tcp) over the transport tcp
Handshook(tcp) == [made |-> TRUE, over |-> tcp, authed |-> FALSE]

NoCmd == SshCommand_new(<<>>)

\* a slot no call has used
IdleInv ==
    [pc |-> "idle", kind |-> "none", of |-> 0, shell |-> 0, sess |-> 0,
     orig |-> NoCmd, mode |-> FALSE, cmd |-> NoCmd, msg |-> <<>>, exec |-> <<>>,
     wire |-> <<>>, script |-> NoScript, log |-> <<>>, nread |-> 0,
     stdout |-> <<>>,
     stderr |-> <<>>, res |-> NoResult, task |-> 0, joined |-> FALSE,
     tries |-> 0, local |-> NoSession, arg |-> <<>>, buf |-> <<>>]

NoShell ==
    [live |-> FALSE, made |-> FALSE, sess |-> 0, dry_run_mode |-> FALSE,
     tcp |-> 0, username |-> "", key |-> "", remote |-> ""]

\* how establishing a connection can fare: every call succeeds, one of the
\* calls followed by `?` fails, or the remote does not authenticate the session
ConnectOutcomes ==
    {"ok", "connect", "handshake", "userauth_pubkey_file", "unauthenticated"}

\* the authenticated() test is left out
Connect_no_auth_check(username, remote, key, id, o) ==
    IF o \in {"connect", "handshake", "userauth_pubkey_file"}
    THEN [err |-> SshErr(o), tag |-> "Err"]
    ELSE [tag |-> "Ok",
          shell |-> [key |-> key, made |-> TRUE, tcp |-> id, sess |-> id,
                     live |-> TRUE, dry_run_mode |-> FALSE,
                     username |-> username, remote |-> remote],
          sess |-> [Handshook(id) EXCEPT !.authed = (o = "ok")]]

\* the body with_key and from_existing share: connect, handshake,
\* authentication, and the shell around the session; id names the transport
\* and the session that are made
Connect(username, remote, key, id, o) ==
    IF o \in {"connect", "handshake", "userauth_pubkey_file"}
    THEN [err |-> SshErr(o), tag |-> "Err"]
    ELSE LET sess == [Handshook(id) EXCEPT !.authed = (o = "ok")]
         IN  IF ~sess.authed
             THEN [err |-> AuthFailed(key), tag |-> "Err"]
             ELSE [tag |-> "Ok",
                   shell |-> [key |-> key, made |-> TRUE, tcp |-> id,
                              sess |-> id, live |-> TRUE,
                              dry_run_mode |-> FALSE, username |-> username,
                              remote |-> remote],
                   sess |-> sess]

\* the state in which shell 0 is sh0 around the session se0
InitWith(sh0, se0) ==
    /\ rev \in Revs
    /\ shells = [s \in ShellIds |-> IF s = 0 THEN sh0 ELSE NoShell]
    /\ lock = [s \in ConnIds |-> Unlocked]
    /\ inv = [x \in Slots |-> IdleInv]
    /\ nspawn = 0
    /\ session = [c \in ConnIds |-> IF c = 0 THEN se0 ELSE NoSession]
    /\ net = [made |-> 0, up |-> TRUE]

\* SshShell::with_key("markm", "myhost:22", "id_rsa") has returned shell 0
Init ==
    LET made == Connect("markm", "myhost:22", "id_rsa", 0, "ok")
    IN  InitWith(made.shell, made.sess)

\* no shell has been constructed yet
InitUnconnected == InitWith(NoShell, NoSession)

\* the slot is inside the channel-execution procedure with its channel open
InChannel(x) ==
    inv[x].pc \in {"dry_close", "dry_wait", "pty", "exec", "rd_out", "close",
                   "wait_close", "rd_err", "exit"}

\* a thread may start a call while its earlier call is in progress
AtRest_always(x) == TRUE

\* the thread of the slot is not inside a call
AtRest(x) == inv[x].pc \in {"idle", "done"}

----------------------------------------------------------------------------
(* Leaving the procedure *)

\* the thread panics: the MutexGuard is dropped while unwinding, which poisons
\* the Mutex
Unwind(x) ==
    /\ inv' = [inv EXCEPT ![x].pc = "done", ![x].res = Panic]
    /\ lock' = [lock EXCEPT ![inv[x].sess] = Poisoned]

\* the error is returned with the MutexGuard leaked: the session stays locked
Fail_keeps_lock(x, op) ==
    /\ inv' = [inv EXCEPT ![x].pc = "done", ![x].log = Append(@, op),
                          ![x].res = SshErr(op)]
    /\ UNCHANGED lock

\* the call op on the channel failed and `?` returns its error: the channel is
\* dropped, then the MutexGuard, which unlocks the session
Fail(x, op) ==
    /\ inv' = [inv EXCEPT ![x].pc = "done", ![x].log = Append(@, op),
                          ![x].res = SshErr(op)]
    /\ lock' = [lock EXCEPT ![inv[x].sess] = Unlocked]

\* a call on the channel that returns Err when the remote fails it and
\* otherwise moves on
ChanCall(x, op, next) ==
    IF inv[x].script.fail = op
    THEN Fail(x, op)
    ELSE /\ inv' = [inv EXCEPT ![x].pc = next, ![x].log = Append(@, op)]
         /\ UNCHANGED lock

\* the mode replaces the flag of the command
DryRunOverride_replaces(mode, c) == dry_run(c, mode)

\* `if self.dry_run_mode { cmd.dry_run(true) } else { cmd }`
DryRunOverride(mode, c) == IF mode THEN dry_run(c, TRUE) ELSE c

\* a lock that never makes a thread wait
LockAvailable_never_waits(s) == TRUE

\* Mutex::lock returns only when no thread holds the lock
LockAvailable(s) == lock[s].state # "held"

\* the invocation calls SshShell::run (a caller always; a task in revision
\* "new", whose closure calls shell.run(cmd) on the shell it owns)
RunsViaShell(x) == x \in Callers \/ rev = "new"

----------------------------------------------------------------------------
(* run, and the closure of a spawned task *)

\* SshShell::run is called by thread t on shell s with command c
run(t, s, c) ==
    /\ t \in Callers
    /\ AtRest(t)
    /\ shells[s].live
    /\ inv' = [inv EXCEPT ![t] =
                  [IdleInv EXCEPT !.pc = "lock", !.kind = "run", !.of = s,
                                  !.shell = s, !.sess = shells[s].sess,
                                  !.orig = c, !.mode = shells[s].dry_run_mode,
                                  !.cmd = c]]
    /\ UNCHANGED <<rev, shells, lock, nspawn, session, net>>

\* self.sess.lock().unwrap()
lock_session(x) ==
    /\ inv[x].pc = "lock"
    /\ LockAvailable(inv[x].sess)
    /\ IF lock[inv[x].sess].state = "poisoned"
       THEN /\ inv' = [inv EXCEPT ![x].pc = "done", ![x].res = Panic]
            /\ UNCHANGED lock
       ELSE /\ inv' = [inv EXCEPT ![x].pc = "chan"]
            /\ lock' = [lock EXCEPT ![inv[x].sess] = HeldBy(x)]
    /\ UNCHANGED <<rev, shells, nspawn, session, net>>

\* the guard is a temporary of the statement that opens the channel
LockAfterOpen_temporary(x) == [lock EXCEPT ![inv[x].sess] = Unlocked]

\* `let sess = self.sess.lock().unwrap()`: the guard is bound to a variable of
\* run (of the closure), so the lock stays held once the channel is open
LockAfterOpen(x) == lock

\* the pty is requested before the dry-run test
FirstStep_pty_first(c) ==
    IF ~c.no_pty THEN "pty" ELSE IF c.dry_run THEN "dry_close" ELSE "exec"

\* no_pty is ignored
FirstStep_always_pty(c) == IF c.dry_run THEN "dry_close" ELSE "pty"

\* the head of run_with_chan_and_opts: where the procedure goes first
FirstStep(c) == IF c.dry_run THEN "dry_close" ELSE IF c.no_pty THEN "exec" ELSE "pty"

\* sess.channel_session()?, the dry-run override of run, and the head of
\* run_with_chan_and_opts up to the dry-run test; sc is what the remote will
\* answer on this channel
channel_session(x, sc) ==
    /\ inv[x].pc = "chan"
    /\ IF sc.fail = "channel_session"
       THEN /\ inv' = [inv EXCEPT ![x].pc = "done", ![x].script = sc,
                                  ![x].res = SshErr("channel_session")]
            /\ lock' = [lock EXCEPT ![inv[x].sess] = Unlocked]
       ELSE LET c == IF RunsViaShell(x)
                     THEN DryRunOverride(shells[inv[x].shell].dry_run_mode, inv[x].cmd)
                     ELSE inv[x].cmd
            IN  /\ inv' = [inv EXCEPT ![x].cmd = c,
                                      ![x].msg = DisplayMsg(c),
                                      ![x].exec = RewriteCmd(rev, c),
                                      ![x].script = sc,
                                      ![x].pc = FirstStep(c)]
                /\ lock' = LockAfterOpen(x)
    /\ UNCHANGED <<rev, shells, nspawn, session, net>>

\* dry run: chan.close()?
dry_run_close(x) ==
    /\ inv[x].pc = "dry_close"
    /\ ChanCall(x, "close", "dry_wait")
    /\ UNCHANGED <<rev, shells, nspawn, session, net>>

\* dry run: chan.wait_close()?; return Ok(SshOutput { stdout, stderr })
dry_run_wait_close(x) ==
    /\ inv[x].pc = "dry_wait"
    /\ IF inv[x].script.fail = "wait_close"
       THEN Fail(x, "wait_close")
       ELSE /\ inv' = [inv EXCEPT ![x].pc = "done",
                                  ![x].log = Append(@, "wait_close"),
                                  ![x].res = Ok(inv[x].stdout, inv[x].stderr)]
            /\ lock' = [lock EXCEPT ![inv[x].sess] = Unlocked]
    /\ UNCHANGED <<rev, shells, nspawn, session, net>>

\* chan.request_pty("vt100", None, None)?
request_pty(x) ==
    /\ inv[x].pc = "pty"
    /\ ChanCall(x, "request_pty", "exec")
    /\ UNCHANGED <<rev, shells, nspawn, session, net>>

\* exec is issued again on the channel when it fails
exec_retries(x) ==
    /\ inv[x].pc = "exec"
    /\ inv' = [inv EXCEPT ![x].pc = IF inv[x].script.fail = "exec"
                                     THEN "exec" ELSE "rd_out",
                          ![x].log = Append(@, "exec"),
                          ![x].wire = inv[x].exec]
    /\ UNCHANGED <<rev, shells, lock, nspawn, session, net>>

\* chan.exec(&cmd)?
exec(x) ==
    /\ inv[x].pc = "exec"
    /\ IF inv[x].script.fail = "exec"
       THEN /\ inv' = [inv EXCEPT ![x].pc = "done",
                                  ![x].log = Append(@, "exec"),
                                  ![x].wire = inv[x].exec,
                                  ![x].res = SshErr("exec")]
            /\ lock' = [lock EXCEPT ![inv[x].sess] = Unlocked]
       ELSE /\ inv' = [inv EXCEPT ![x].pc = "rd_out",
                                  ![x].log = Append(@, "exec"),
                                  ![x].wire = inv[x].exec]
            /\ UNCHANGED lock
    /\ UNCHANGED <<rev, shells, nspawn, session, net>>

\* one turn of a read loop over the chunks the remote sends on a stream:
\* `while chan.read(&mut buf)? > 0 { ...push_str(out); clear buf }`
ReadLoop(x, op, chunks, field, next) ==
    IF inv[x].nread < Len(chunks)
    THEN LET chunk == chunks[inv[x].nread + 1]
             filled == FillBuf(inv[x].buf, chunk)
         IN  IF DecodePanics(rev, filled)
             THEN Unwind(x)
             ELSE /\ inv' = [inv EXCEPT ![x].nread = @ + 1,
                                        ![x].log = Append(@, op),
                                        ![x][field] = @ \o DecodeBuf(filled),
                                        ![x].buf = ClearBuf(filled)]
                  /\ UNCHANGED lock
    ELSE IF inv[x].script.fail = op
         THEN Fail(x, op)
         ELSE /\ inv' = [inv EXCEPT ![x].nread = 0, ![x].pc = next,
                                    ![x].log = Append(@, op)]
              /\ UNCHANGED lock

read_stdout(x) ==
    /\ inv[x].pc = "rd_out"
    /\ ReadLoop(x, "read_stdout", inv[x].script.out, "stdout", "close")
    /\ UNCHANGED <<rev, shells, nspawn, session, net>>

\* chan.close()?
close(x) ==
    /\ inv[x].pc = "close"
    /\ ChanCall(x, "close", "wait_close")
    /\ UNCHANGED <<rev, shells, nspawn, session, net>>

\* the exit status is read before stderr is drained
wait_close_then_exit(x) ==
    /\ inv[x].pc = "wait_close"
    /\ ChanCall(x, "wait_close", "exit")
    /\ UNCHANGED <<rev, shells, nspawn, session, net>>

\* chan.wait_close()? and the buffer cleared before stderr is read
wait_close(x) ==
    /\ inv[x].pc = "wait_close"
    /\ IF inv[x].script.fail = "wait_close"
       THEN Fail(x, "wait_close")
       ELSE /\ inv' = [inv EXCEPT ![x].pc = "rd_err",
                                  ![x].log = Append(@, "wait_close"),
                                  ![x].buf = ClearBuf(@)]
            /\ UNCHANGED lock
    /\ UNCHANGED <<rev, shells, nspawn, session, net>>

read_stderr(x) ==
    /\ inv[x].pc = "rd_err"
    /\ ReadLoop(x, "read_stderr", inv[x].script.err, "stderr", "exit")
    /\ UNCHANGED <<rev, shells, nspawn, session, net>>

\* allow_error is ignored
ExitIsError_ignores_flag(c, exit) == exit # 0

\* `if exit != 0 && !allow_error`
ExitIsError(c, exit) == exit # 0 /\ ~c.allow_error

\* the error carries the text as the caller gave it
ExitResult_original_text(x, exit) ==
    IF ExitIsError(inv[x].cmd, exit)
    THEN NonZeroExit(inv[x].msg, exit)
    ELSE Ok(inv[x].stdout, inv[x].stderr)

\* what run_with_chan_and_opts returns once it has the exit status
ExitResult(x, exit) ==
    IF ExitIsError(inv[x].cmd, exit)
    THEN NonZeroExit(inv[x].exec, exit)
    ELSE Ok(inv[x].stdout, inv[x].stderr)

\* chan.exit_status()? and the return
exit_status(x) ==
    /\ inv[x].pc = "exit"
    /\ IF inv[x].script.fail = "exit_status"
       THEN Fail(x, "exit_status")
       ELSE /\ inv' = [inv EXCEPT ![x].pc = "done",
                                  ![x].log = Append(@, "exit_status"),
                                  ![x].res = ExitResult(x, inv[x].script.exit)]
            /\ lock' = [lock EXCEPT ![inv[x].sess] = Unlocked]
    /\ UNCHANGED <<rev, shells, nspawn, session, net>>

----------------------------------------------------------------------------
(* spawn, join and the dry-run mode *)

\* the new shell takes the fields of the source, its dry-run mode too
from_existing_clones(shell, k, o) ==
    LET made == Connect(shell.username, shell.remote, shell.key, k, o)
    IN  IF made.tag = "Err" THEN made
        ELSE [made EXCEPT !.shell.dry_run_mode = shell.dry_run_mode]

\* SshShell::from_existing(shell), making transport and session k
from_existing(shell, k, o) == Connect(shell.username, shell.remote, shell.key, k, o)

\* the closure captures the command as it was given
SpawnCmd_as_given(mode, c) == c

\* the command the task closure captures
SpawnCmd(mode, c) == DryRunOverride(mode, c)

\* SshShell::spawn is called by thread t on shell s with command c; conn is
\* how the connection that from_existing opens fares, max the number of tasks
\* the behaviour may start
spawn(t, s, c, conn, max) ==
    LET k == NumCallers + nspawn + 1
        mode == shells[s].dry_run_mode
        called == [IdleInv EXCEPT !.pc = "done", !.kind = "spawn", !.of = s]
        task == [IdleInv EXCEPT !.pc = "lock", !.kind = "task", !.of = s,
                                !.orig = c, !.mode = mode,
                                !.cmd = SpawnCmd(mode, c)]
    IN  /\ t \in Callers
        /\ AtRest(t)
        /\ shells[s].live
        /\ nspawn < max
        /\ IF rev = "old"
           THEN \* let sess = self.sess.clone()
                /\ inv' = [inv EXCEPT
                             ![t] = [called EXCEPT !.res = Handle(k), !.task = k],
                             ![k] = [task EXCEPT !.shell = s, !.sess = shells[s].sess]]
                /\ nspawn' = nspawn + 1
                /\ UNCHANGED <<shells, session>>
           ELSE LET made == from_existing(shells[s], k, conn)
                IN  IF made.tag = "Err"
                    THEN \* let shell = Self::from_existing(self)?
                         /\ inv' = [inv EXCEPT ![t] = [called EXCEPT !.res = made.err]]
                         /\ UNCHANGED <<shells, nspawn, session>>
                    ELSE \* let sess = shell.sess.clone() and the caller gets the
                         \* shell, or the shell moves to the task
                         LET dup == [made.shell EXCEPT !.live = (rev = "mid")]
                         IN  /\ shells' = [shells EXCEPT ![k] = dup]
                             /\ session' = [session EXCEPT ![k] = made.sess]
                             /\ inv' = [inv EXCEPT
                                          ![t] = [called EXCEPT !.res = Handle(k),
                                                                !.task = k],
                                          ![k] = [task EXCEPT !.shell = k,
                                                              !.sess = dup.sess]]
                             /\ nspawn' = nspawn + 1
        /\ UNCHANGED <<rev, lock, net>>

\* join does not wait for the thread
ThreadFinished_no_wait(k) == TRUE

\* JoinHandle::join returns once the thread has finished
ThreadFinished(k) == inv[k].pc = "done"

\* SshSpawnHandle::join, called by thread t on the handle of task k
join(t, k) ==
    /\ t \in Callers
    /\ AtRest(t)
    /\ k \in Tasks
    /\ inv[k].kind = "task"
    /\ ~inv[k].joined
    /\ ThreadFinished(k)
    /\ inv' = [inv EXCEPT
                 ![t] = [IdleInv EXCEPT !.pc = "done", !.kind = "join",
                                        !.task = k, !.orig = inv[k].orig,
                                        !.mode = inv[k].mode,
                                        !.script = inv[k].script,
                                        !.res = inv[k].res],
                 ![k].joined = TRUE]
    /\ shells' = IF rev = "new" THEN [shells EXCEPT ![k].live = TRUE] ELSE shells
    /\ UNCHANGED <<rev, lock, nspawn, session, net>>

\* a `&mut self` method can be called: no thread is inside a `&self` call on
\* the shell
ExclusiveAccess(s) ==
    /\ shells[s].live
    /\ \A t \in Callers : AtRest(t) \/ inv[t].shell # s

\* SshShell::set_dry_run (revisions "mid" and "new")
set_dry_run(s, on) ==
    /\ rev # "old"
    /\ ExclusiveAccess(s)
    /\ shells' = [shells EXCEPT ![s].dry_run_mode = on]
    /\ UNCHANGED <<rev, lock, inv, nspawn, session, net>>

\* SshShell::toggle_dry_run (revision "old")
toggle_dry_run(s) ==
    /\ rev = "old"
    /\ ExclusiveAccess(s)
    /\ shells' = [shells EXCEPT ![s].dry_run_mode = ~@]
    /\ UNCHANGED <<rev, lock, inv, nspawn, session, net>>

----------------------------------------------------------------------------
(* Connecting and reconnecting *)

\* SshShell::with_key(username, remote, key) is called by thread t while no
\* shell exists; o is how the connection fares
with_key(t, username, remote, key, o) ==
    LET made == Connect(username, remote, key, 0, o)
        called == [IdleInv EXCEPT !.pc = "done", !.kind = "with_key",
                                  !.arg = <<username, remote, key, o>>]
    IN  /\ t \in Callers
        /\ AtRest(t)
        /\ ~shells[0].made
        /\ IF made.tag = "Err"
           THEN /\ inv' = [inv EXCEPT ![t] = [called EXCEPT !.res = made.err]]
                /\ UNCHANGED <<shells, session>>
           ELSE /\ inv' = [inv EXCEPT ![t] = [called EXCEPT !.res = OkShell(0)]]
                /\ shells' = [shells EXCEPT ![0] = made.shell]
                /\ session' = [session EXCEPT ![0] = made.sess]
        /\ UNCHANGED <<rev, lock, nspawn, net>>

\* SshShell::from_existing(&shells[s]) (duplicate in src/spurs/src/lib.rs) is
\* called by thread t; the new shell goes to slot k
duplicate(t, s, o, max) ==
    LET k == NumCallers + nspawn + 1
        made == from_existing(shells[s], k, o)
        called == [IdleInv EXCEPT !.pc = "done", !.kind = "duplicate", !.of = s,
                                  !.arg = <<shells[s], o>>]
    IN  /\ rev # "old"
        /\ t \in Callers
        /\ AtRest(t)
        /\ shells[s].live
        /\ nspawn < max
        /\ IF made.tag = "Err"
           THEN /\ inv' = [inv EXCEPT ![t] = [called EXCEPT !.res = made.err]]
                /\ UNCHANGED <<shells, session, nspawn>>
           ELSE /\ inv' = [inv EXCEPT ![t] = [called EXCEPT !.res = OkShell(k),
                                                           !.shell = k]]
                /\ shells' = [shells EXCEPT ![k] = made.shell]
                /\ session' = [session EXCEPT ![k] = made.sess]
                /\ nspawn' = nspawn + 1
        /\ UNCHANGED <<rev, lock, net>>

\* the remote starts or stops accepting connections
net_change ==
    /\ net' = [net EXCEPT !.up = ~@]
    /\ UNCHANGED <<rev, shells, lock, inv, nspawn, session>>

\* SshShell::reconnect is called by thread t on shell s
reconnect(t, s) ==
    /\ t \in Callers
    /\ AtRest(t)
    /\ ExclusiveAccess(s)
    /\ net.made < MaxReconnect
    /\ inv' = [inv EXCEPT ![t] =
                  [IdleInv EXCEPT !.pc = "rc_connect", !.kind = "reconnect",
                                  !.of = s, !.shell = s, !.sess = shells[s].sess]]
    /\ UNCHANGED <<rev, shells, lock, nspawn, session, net>>

\* the failed connect is returned as an error
AfterFailedConnect_returns(t) ==
    /\ inv' = [inv EXCEPT ![t].pc = "done", ![t].log = Append(@, "connect_timeout"),
                          ![t].res = SshErr("connect_timeout")]
    /\ UNCHANGED <<shells, net>>

\* `Err(e) => { ..; std::thread::sleep(DEFAULT_TIMEOUT / 2); }`: the attempts
\* are counted up to MaxTries
AfterFailedConnect(t) ==
    /\ inv' = [inv EXCEPT ![t].pc = "rc_sleep",
                          ![t].tries = IF @ < MaxTries THEN @ + 1 ELSE @]
    /\ UNCHANGED <<shells, net>>

\* the loop goes on after a successful connect
AfterConnect_no_break(t, tcp) ==
    /\ shells' = [shells EXCEPT ![inv[t].shell].tcp = tcp]
    /\ inv' = [inv EXCEPT ![t].pc = "rc_sleep"]
    /\ UNCHANGED net

\* `Ok(tcp) => { self.tcp = tcp; break; }`
AfterConnect(t, tcp) ==
    /\ shells' = [shells EXCEPT ![inv[t].shell].tcp = tcp]
    /\ net' = [net EXCEPT !.made = @ + 1]
    /\ inv' = [inv EXCEPT ![t].pc = "rc_handshake",
                          ![t].log = Append(@, "connect_timeout")]

\* TcpStream::connect_timeout(&self.remote, DEFAULT_TIMEOUT / 2) in the loop
rc_connect(t) ==
    /\ inv[t].pc = "rc_connect"
    /\ IF net.up
       THEN AfterConnect(t, ReconnId(net.made + 1))
       ELSE AfterFailedConnect(t)
    /\ UNCHANGED <<rev, lock, nspawn, session>>

\* std::thread::sleep returns and the loop starts over
rc_sleep(t) ==
    /\ inv[t].pc = "rc_sleep"
    /\ inv' = [inv EXCEPT ![t].pc = "rc_connect"]
    /\ UNCHANGED <<rev, shells, lock, nspawn, session, net>>

\* an error returned by `?` in reconnect; the call holds no lock
rc_fail(t, op) ==
    inv' = [inv EXCEPT ![t].pc = "done", ![t].log = Append(@, op),
                       ![t].res = SshErr(op)]

\* let mut sess = Session::new().unwrap(); sess.handshake(&self.tcp)?
rc_handshake(t, ok) ==
    /\ inv[t].pc = "rc_handshake"
    /\ IF ok
       THEN inv' = [inv EXCEPT ![t].pc = "rc_userauth",
                               ![t].log = Append(@, "handshake"),
                               ![t].local = Handshook(shells[inv[t].shell].tcp)]
       ELSE rc_fail(t, "handshake")
    /\ UNCHANGED <<rev, shells, lock, nspawn, session, net>>

\* sess.userauth_pubkey_file(&self.username, None, self.key.as_ref(), None)?;
\* o says whether the call fails ("error"), returns with the session
\* authenticated ("ok") or returns with the session not authenticated
rc_userauth(t, o) ==
    /\ inv[t].pc = "rc_userauth"
    /\ IF o = "error"
       THEN rc_fail(t, "userauth_pubkey_file")
       ELSE inv' = [inv EXCEPT ![t].pc = "rc_install",
                               ![t].log = Append(@, "userauth_pubkey_file"),
                               ![t].local.authed = (o = "ok")]
    /\ UNCHANGED <<rev, shells, lock, nspawn, session, net>>

\* another owner of the Arc around session c exists: the closure of a task
\* that has not finished holds a clone (in src/spurs/src/lib.rs the closure
\* holds the shell itself)
ArcShared(c) ==
    /\ rev # "new"
    /\ \E k \in Tasks :
          inv[k].kind = "task" /\ inv[k].pc # "done" /\ inv[k].sess = c

\* the authenticated() test, the replacement of the session, and the return
rc_install(t) ==
    LET s == inv[t].shell
        c == shells[s].sess
    IN  /\ inv[t].pc = "rc_install"
        /\ IF ~inv[t].local.authed
           THEN /\ inv' = [inv EXCEPT ![t].pc = "done",
                                      ![t].log = Append(@, "authenticated"),
                                      ![t].res = AuthFailed(shells[s].key)]
                /\ UNCHANGED <<shells, lock, session>>
           ELSE IF rev = "old"
           THEN \* self.sess = Arc::new(Mutex::new(sess))
                /\ shells' = [shells EXCEPT ![s].sess = shells[s].tcp]
                /\ session' = [session EXCEPT ![shells[s].tcp] = inv[t].local]
                /\ inv' = [inv EXCEPT ![t].pc = "done",
                                      ![t].log = Append(@, "authenticated"),
                                      ![t].sess = shells[s].tcp,
                                      ![t].res = OkUnit]
                /\ UNCHANGED lock
           ELSE IF ArcShared(c) \/ lock[c] = Poisoned
           THEN \* Arc::get_mut(&mut self.sess).unwrap().get_mut().unwrap()
                /\ inv' = [inv EXCEPT ![t].pc = "done",
                                      ![t].log = Append(@, "authenticated"),
                                      ![t].res = Panic]
                /\ UNCHANGED <<shells, lock, session>>
           ELSE \* std::mem::replace(self_sess, sess)
                /\ session' = [session EXCEPT ![c] = inv[t].local]
                /\ inv' = [inv EXCEPT ![t].pc = "done",
                                      ![t].log = Append(@, "authenticated"),
                                      ![t].res = OkUnit]
                /\ UNCHANGED <<shells, lock>>
        /\ UNCHANGED <<rev, nspawn, net>>

\* a step of thread t inside reconnect
ReconnectStep(t) ==
    \/ rc_connect(t)
    \/ rc_sleep(t)
    \/ \E ok \in BOOLEAN : rc_handshake(t, ok)
    \/ \E o \in {"ok", "error", "unauthenticated"} : rc_userauth(t, o)
    \/ rc_install(t)

----------------------------------------------------------------------------
(* Building commands and escaping strings *)

\* SshCommand::new(text) is called by thread t, which keeps the command
build_new(t, text) ==
    /\ t \in Callers
    /\ AtRest(t)
    /\ inv' = [inv EXCEPT ![t] =
                  [IdleInv EXCEPT !.pc = "done", !.kind = "build",
                                  !.arg = <<text>>,
                                  !.cmd = SshCommand_new(text)]]
    /\ UNCHANGED <<rev, shells, lock, nspawn, session, net>>

\* thread t replaces the command it keeps by built, the result of the builder
\* call named call
Configure(t, call, built) ==
    /\ t \in Callers
    /\ inv[t].kind = "build"
    /\ Len(inv[t].log) < MaxBuild
    /\ inv' = [inv EXCEPT ![t].cmd = built, ![t].log = Append(@, call)]
    /\ UNCHANGED <<rev, shells, lock, nspawn, session, net>>

build_cwd(t, p) == Configure(t, <<"cwd", p>>, cwd(inv[t].cmd, p))

build_use_bash(t) == Configure(t, <<"use_bash">>, use_bash(inv[t].cmd))

build_allow_error(t) == Configure(t, <<"allow_error">>, allow_error(inv[t].cmd))

build_dry_run(t, is_dry) ==
    Configure(t, <<"dry_run", is_dry>>, dry_run(inv[t].cmd, is_dry))

build_no_pty(t) == Configure(t, <<"no_pty">>, no_pty(inv[t].cmd))

\* a String returned by a function
OkString(str) == [tag |-> "String", str |-> str]

\* thread t starts a string
string_new(t) ==
    /\ t \in Callers
    /\ AtRest(t)
    /\ inv' = [inv EXCEPT ![t] = [IdleInv EXCEPT !.pc = "done", !.kind = "string"]]
    /\ UNCHANGED <<rev, shells, lock, nspawn, session, net>>

\* thread t appends the character ch to its string
string_push(t, ch) ==
    /\ t \in Callers
    /\ inv[t].kind = "string"
    /\ Len(inv[t].msg) < MaxLen
    /\ inv' = [inv EXCEPT ![t].msg = Append(@, ch), ![t].res = NoResult]
    /\ UNCHANGED <<rev, shells, lock, nspawn, session, net>>

\* thread t calls escape_for_bash on its string
call_escape_for_bash(t) ==
    /\ t \in Callers
    /\ inv[t].kind = "string"
    /\ inv' = [inv EXCEPT ![t].res = OkString(escape_for_bash(inv[t].msg))]
    /\ UNCHANGED <<rev, shells, lock, nspawn, session, net>>

----------------------------------------------------------------------------
(* Text: a String is a TLA+ string where it is only formatted and compared,
   and a sequence of characters where the code looks inside it *)

\* char::is_whitespace, over the characters used here
Whitespace == {" ", "\t", "\n", "\r"}

RECURSIVE Text(_)
\* the String made of the characters of s, as format! writes it
Text(s) == IF s = <<>> THEN "" ELSE Head(s) \o Text(Tail(s))

RECURSIVE trim_start(_)
trim_start(s) ==
    IF s # <<>> /\ Head(s) \in Whitespace THEN trim_start(Tail(s)) ELSE s

RECURSIVE trim_end(_)
trim_end(s) ==
    IF s # <<>> /\ s[Len(s)] \in Whitespace
    THEN trim_end(SubSeq(s, 1, Len(s) - 1)) ELSE s

\* the white space at the end is kept
trim_start_only(s) == trim_start(s)

\* str::trim
trim(s) == trim_end(trim_start(s))

RECURSIVE split_terminator(_, _)
\* str::split_terminator('\n'): the pieces of s that a newline ends and the
\* rest after the last newline unless it is empty; cur is the piece being read
split_terminator(s, cur) ==
    IF s = <<>> THEN (IF cur = <<>> THEN <<>> ELSE <<cur>>)
    ELSE IF Head(s) = "\n" THEN <<cur>> \o split_terminator(Tail(s), <<>>)
    ELSE split_terminator(Tail(s), Append(cur, Head(s)))

\* str::lines: the newline-terminated pieces, each without a final "\r"
lines(s) ==
    LET pieces == split_terminator(s, <<>>)
    IN  [i \in 1..Len(pieces) |->
            IF pieces[i] # <<>> /\ pieces[i][Len(pieces[i])] = "\r"
            THEN SubSeq(pieces[i], 1, Len(pieces[i]) - 1) ELSE pieces[i]]

\* one element fewer is skipped
skip_one_less(L, n) == SubSeq(L, n, Len(L))

\* Iterator::skip(n)
skip(L, n) == SubSeq(L, n + 1, Len(L))

RECURSIVE split_fields(_, _)
\* line.split(char::is_whitespace).filter(|s| !s.is_empty()); cur is the field
\* being read
split_fields(s, cur) ==
    LET done == IF cur = <<>> THEN <<>> ELSE <<cur>>
    IN  IF s = <<>> THEN done
        ELSE IF Head(s) \in Whitespace THEN done \o split_fields(Tail(s), <<>>)
        ELSE split_fields(Tail(s), Append(cur, Head(s)))

RECURSIVE slice_join(_, _)
\* [&str]::slice_join(sep)
slice_join(L, sep) ==
    IF L = <<>> THEN ""
    ELSE IF Len(L) = 1 THEN L[1]
    ELSE L[1] \o sep \o slice_join(Tail(L), sep)

----------------------------------------------------------------------------
(* Helpers that construct a command: cmd!(fmt, args) is
   SshCommand::new(&format!(fmt, args)) *)

dpkg_install(pkg) == SshCommand_new("sudo dpkg -i " \o pkg)

apt_install(pkgs) == SshCommand_new("sudo apt-get -y install " \o slice_join(pkgs, " "))

rpm_install(pkg) == SshCommand_new("sudo rpm -ivh " \o pkg)

yum_install(pkgs) == SshCommand_new("sudo yum install -y " \o slice_join(pkgs, " "))

set_cpu_scaling_governor(gov) ==
    SshCommand_new("sudo cpupower frequency-set -g " \o gov)

swapoff(device) == SshCommand_new("sudo swapoff " \o device)

swapon(device) == SshCommand_new("sudo swapon " \o device)

add_to_group(group) ==
    use_bash(SshCommand_new("sudo usermod -aG " \o group \o " " \o Backtick \o "whoami"
                            \o Backtick))

write_gpt(device) ==
    SshCommand_new("sudo parted -a optimal " \o device \o " -s -- mklabel gpt")

create_partition(device) ==
    SshCommand_new("sudo parted -a optimal " \o device
                   \o " -s -- mkpart primary 0% 100%")

\* the helpers that take one string, and those that take a list of strings
OneArgHelpers ==
    {"dpkg_install", "rpm_install", "set_cpu_scaling_governor", "swapoff",
     "swapon", "add_to_group", "write_gpt", "create_partition"}

ListHelpers == {"apt_install", "yum_install"}

\* the command the helper named f returns for the argument a
HelperCommand(f, a) ==
    CASE f = "dpkg_install" -> dpkg_install(a)
      [] f = "apt_install" -> apt_install(a)
      [] f = "rpm_install" -> rpm_install(a)
      [] f = "yum_install" -> yum_install(a)
      [] f = "set_cpu_scaling_governor" -> set_cpu_scaling_governor(a)
      [] f = "swapoff" -> swapoff(a)
      [] f = "swapon" -> swapon(a)
      [] f = "add_to_group" -> add_to_group(a)
      [] f = "write_gpt" -> write_gpt(a)
      [] f = "create_partition" -> create_partition(a)

\* thread t calls the helper named f with the argument a and keeps the command
call_helper(t, f, a) ==
    /\ t \in Callers
    /\ AtRest(t)
    /\ inv' = [inv EXCEPT ![t] =
                  [IdleInv EXCEPT !.pc = "done", !.kind = "helper",
                                  !.arg = [a |-> a, fn |-> f],
                                  !.cmd = HelperCommand(f, a)]]
    /\ UNCHANGED <<rev, shells, lock, nspawn, session, net>>

----------------------------------------------------------------------------
(* Helpers that run commands on a shell: any `impl Execute` *)

\* one call a helper made on the shell, and what the shell returned
Called(call, c, r) == [cmd |-> c, res |-> r, call |-> call]

\* stands for the command of a call that takes none
NoCommand == SshCommand_new("")

\* Ok(HashSet<String>), Ok(Vec<(String, String)>)
OkSet(S) == [tag |-> "Set", set |-> S]
OkVec(v) == [tag |-> "Vec", vec |-> v]

\* the result is an Err, which `?` returns from the helper
IsErr(r) == r.tag \in {"SshError", "NonZeroExit", "AuthFailed"}

\* what Execute::run can return when the remote prints one of outs
RunResults(outs) ==
    {Ok(o, <<>>) : o \in outs} \cup {SshErr("run"), NonZeroExit(S_ls, 1)}

\* what Execute::reconnect can return
ReconnectResults == {OkUnit, SshErr("reconnect")}

\* thread t calls a helper with the arguments a, a record that names the helper
StartHelper(t, a, first) ==
    /\ t \in Callers
    /\ AtRest(t)
    /\ inv' = [inv EXCEPT ![t] =
                  [IdleInv EXCEPT !.pc = first, !.kind = "helper", !.arg = a]]
    /\ UNCHANGED <<rev, shells, lock, nspawn, session, net>>

\* the helper of thread t is at pc: it makes a call on the shell, which
\* returns r, and goes on at next or returns ret
ShellCall(t, pc, call, c, r, next, ret) ==
    /\ t \in Callers
    /\ inv[t].kind = "helper"
    /\ inv[t].pc = pc
    /\ inv' = [inv EXCEPT ![t].log = Append(@, Called(call, c, r)),
                          ![t].pc = next,
                          ![t].res = ret]
    /\ UNCHANGED <<rev, shells, lock, nspawn, session, net>>

\* `let _ = shell.run(..)` at pc: the helper goes on whatever the run returned
ShellRun_unchecked(t, pc, c, r, next, ret) ==
    ShellCall(t, pc, "run", c, r, next, ret)

\* `shell.run(..)?` at pc: an Err is returned from the helper
ShellRun(t, pc, c, r, next, ret) ==
    IF IsErr(r) THEN ShellCall(t, pc, "run", c, r, "done", r)
    ELSE ShellCall(t, pc, "run", c, r, next, ret)

(* reboot *)

\* `shell.run(cmd!("sudo reboot").dry_run(dry_run))?`
AfterRebootRun_checked(dry, r) ==
    IF IsErr(r) THEN [pc |-> "done", res |-> r]
    ELSE [pc |-> IF dry THEN "reboot_whoami" ELSE "reboot_sleep", res |-> NoResult]

\* the reconnect is attempted in a dry run too
AfterRebootRun_reconnects(dry, r) == [pc |-> "reboot_sleep", res |-> NoResult]

\* `let _ = shell.run(..)`: whatever the run returned, go on
AfterRebootRun(dry, r) ==
    [pc |-> IF dry THEN "reboot_whoami" ELSE "reboot_sleep", res |-> NoResult]

reboot(t, dry) == StartHelper(t, [dry_run |-> dry, fn |-> "reboot"], "reboot_run")

reboot_run(t, r) ==
    /\ inv[t].kind = "helper"
    /\ LET dry == inv[t].arg.dry_run
           c == dry_run(SshCommand_new("sudo reboot"), dry)
           then == AfterRebootRun(dry, r)
       IN  ShellCall(t, "reboot_run", "run", c, r, then.pc, then.res)

\* std::thread::sleep(std::time::Duration::from_secs(10))
reboot_sleep(t) ==
    /\ t \in Callers
    /\ inv[t].kind = "helper"
    /\ inv[t].pc = "reboot_sleep"
    /\ inv' = [inv EXCEPT ![t].pc = "reboot_reconnect"]
    /\ UNCHANGED <<rev, shells, lock, nspawn, session, net>>

\* `shell.reconnect()?`
reboot_reconnect(t, r) ==
    /\ inv[t].kind = "helper"
    /\ ShellCall(t, "reboot_reconnect", "reconnect", NoCommand, r,
                 IF IsErr(r) THEN "done" ELSE "reboot_whoami",
                 IF IsErr(r) THEN r ELSE NoResult)

\* `shell.run(cmd!("whoami").dry_run(dry_run))?; Ok(())`
reboot_whoami(t, r) ==
    /\ inv[t].kind = "helper"
    /\ ShellRun(t, "reboot_whoami",
                dry_run(SshCommand_new("whoami"), inv[t].arg.dry_run), r,
                "done", OkUnit)

(* format_partition_as_ext4 *)

\* the white space around the output of blkid is kept
FstabUuid_untrimmed(out) == Text(out)

\* `let uuid = uuid.trim();`
FstabUuid(out) == Text(trim(out))

\* the commands of format_partition_as_ext4 in program order; a holds the
\* arguments and uuid is the trimmed output of the blkid command
FormatCommands(a, uuid) ==
    LET plain(text) == dry_run(SshCommand_new(text), a.dry_run)
    IN  << plain("lsblk"),
           plain("sudo mkfs.ext4 " \o a.partition),
           plain("mkdir -p /tmp/tmp_mnt"),
           plain("sudo mount -t ext4 " \o a.partition \o " /tmp/tmp_mnt"),
           plain("sudo chown " \o a.owner \o " /tmp/tmp_mnt"),
           plain("rsync -a " \o a.mount \o "/ /tmp/tmp_mnt/"),
           plain("sync"),
           plain("sudo umount /tmp/tmp_mnt"),
           plain("sudo mount -t ext4 " \o a.partition \o " " \o a.mount),
           plain("sudo chown " \o a.owner \o " " \o a.mount),
           dry_run(use_bash(SshCommand_new("sudo blkid -o export " \o a.partition
                                           \o " | grep '^UUID='")),
                   a.dry_run),
           plain("echo \"" \o uuid \o "    " \o a.mount
                 \o "    ext4    defaults    0    1\" | sudo tee -a /etc/fstab"),
           plain("lsblk") >>

\* the position of the blkid command in FormatCommands
BlkidAt == 11

format_partition_as_ext4(t, dry, partition, mount, owner) ==
    StartHelper(t, [dry_run |-> dry, fn |-> "format_partition_as_ext4",
                    partition |-> partition, owner |-> owner, mount |-> mount],
                "format_run")

\* the next `shell.run(..)?` of format_partition_as_ext4, and `Ok(())` after
\* the last
format_run(t, r) ==
    /\ inv[t].kind = "helper"
    /\ inv[t].pc = "format_run"
    /\ LET done == Len(inv[t].log)
           uuid == IF done >= BlkidAt
                   THEN FstabUuid(inv[t].log[BlkidAt].res.stdout) ELSE ""
           cmds == FormatCommands(inv[t].arg, uuid)
       IN  ShellRun(t, "format_run", cmds[done + 1], r,
                    IF done + 1 = Len(cmds) THEN "done" ELSE "format_run",
                    IF done + 1 = Len(cmds) THEN OkUnit ELSE NoResult)

(* get_partitions *)

\* `.stdout.lines().map(|line| line.trim().to_owned()).skip(2).collect()`
partitions_of(out) ==
    LET ls == lines(out)
        kept == skip([i \in 1..Len(ls) |-> trim(ls[i])], 2)
    IN  {kept[i] : i \in 1..Len(kept)}

get_partitions(t, device, dry) ==
    StartHelper(t, [dry_run |-> dry, device |-> device, fn |-> "get_partitions"],
                "partitions_run")

\* the one `shell.run(..)?` of get_partitions and the value returned
partitions_run(t, r) ==
    /\ inv[t].kind = "helper"
    /\ ShellRun(t, "partitions_run",
                dry_run(SshCommand_new("lsblk -o KNAME " \o inv[t].arg.device),
                        inv[t].arg.dry_run),
                r, "done",
                IF IsErr(r) THEN r ELSE OkSet(partitions_of(r.stdout)))

(* get_mounted_devs *)

\* duplicates are not looked for
Unseen_always(mounted, d) == TRUE

\* `mounted.iter().all(|(d, _)| d != split[0])`
Unseen(mounted, d) == \A i \in 1..Len(mounted) : mounted[i][1] # d

RECURSIVE push_mounted(_, _)
\* the loop of get_mounted_devs over the lines ls, mounted being the vector
\* built so far
push_mounted(ls, mounted) ==
    IF ls = <<>> THEN mounted
    ELSE LET split == split_fields(Head(ls), <<>>)
         IN  push_mounted(Tail(ls),
                 IF Len(split) > 1 /\ Unseen(mounted, split[1])
                 THEN Append(mounted, <<split[1], split[2]>>)
                 ELSE mounted)

get_mounted_devs(t, dry) ==
    StartHelper(t, [dry_run |-> dry, fn |-> "get_mounted_devs"], "mounted_run")

\* the one `shell.run(..)?` of get_mounted_devs and the value returned
mounted_run(t, r) ==
    /\ inv[t].kind = "helper"
    /\ ShellRun(t, "mounted_run",
                dry_run(SshCommand_new("lsblk -o KNAME,MOUNTPOINT"),
                        inv[t].arg.dry_run),
                r, "done",
                IF IsErr(r) THEN r ELSE OkVec(push_mounted(skip(lines(r.stdout), 1), <<>>)))

(* get_unpartitioned_devs *)

\* the characters of the listings in the order of their code points
CodePoints ==
    <<"\t", "\n", "\r", " ", "/", "A", "E", "K", "M", "N",
      "a", "b", "c", "d", "f", "o", "r", "s", "z">>

CodePoint(c) == CHOOSE i \in 1..Len(CodePoints) : CodePoints[i] = c

RECURSIVE str_lt(_, _)
\* `a < b` of str: the comparison of the bytes, from the first on
str_lt(a, b) ==
    IF b = <<>> THEN FALSE
    ELSE IF a = <<>> THEN TRUE
    ELSE IF Head(a) = Head(b) THEN str_lt(Tail(a), Tail(b))
    ELSE CodePoint(Head(a)) < CodePoint(Head(b))

RECURSIVE BTreeSet_iter(_)
\* the elements of a BTreeSet<&str> in the order its iterator yields them
BTreeSet_iter(S) ==
    IF S = {} THEN <<>>
    ELSE LET least == CHOOSE x \in S : \A y \in S \ {x} : str_lt(x, y)
         IN  <<least>> \o BTreeSet_iter(S \ {least})

\* `lsblk.lines().map(|line| line.trim()).skip(1).collect()`
devices_of(out) ==
    LET ls == lines(out)
        kept == skip([i \in 1..Len(ls) |-> trim(ls[i])], 1)
    IN  {kept[i] : i \in 1..Len(kept)}

\* what get_partitions returns when its run returns r
partitions_result(r) == IF IsErr(r) THEN r ELSE OkSet(partitions_of(r.stdout))

\* the partitions are not removed from the devices
Removed_devices_only(order, parts) ==
    {order[i] : i \in {j \in 1..Len(order) : parts[j].set # {}}}

\* the devices the last loop removes: every device with partitions, and its
\* partitions
Removed(order, parts) ==
    UNION {{order[i]} \cup parts[i].set :
              i \in {j \in 1..Len(order) : parts[j].set # {}}}

\* what get_unpartitioned_devs can return once every device of `order` was
\* asked for its partitions, parts[i] being what get_partitions returned for
\* the i-th: `parts?` returns the error the iteration over the HashMap meets
\* first, which can be any
UnpartitionedResults(order, parts) ==
    LET errs == {parts[i] : i \in {j \in 1..Len(order) : IsErr(parts[j])}}
        devices == {order[i] : i \in 1..Len(order)}
    IN  IF errs # {} THEN errs
        ELSE {OkSet(devices \ Removed(order, parts))}

get_unpartitioned_devs(t, dry) ==
    StartHelper(t, [dry_run |-> dry, fn |-> "get_unpartitioned_devs"], "devs_list")

\* `shell.run(cmd!("lsblk -o KNAME").dry_run(dry_run))?.stdout` and the set of
\* devices; with no device listed the helper returns the empty set
devs_list(t, r) ==
    /\ inv[t].kind = "helper"
    /\ ShellRun(t, "devs_list",
                dry_run(SshCommand_new("lsblk -o KNAME"), inv[t].arg.dry_run),
                r,
                IF IsErr(r) \/ devices_of(r.stdout) # {} THEN "devs_parts" ELSE "done",
                IF IsErr(r) \/ devices_of(r.stdout) # {} THEN NoResult ELSE OkSet({}))

\* the devices in the order `devices.iter()` yields them
DeviceOrder(t) == BTreeSet_iter(devices_of(inv[t].log[1].res.stdout))

\* the next get_partitions of the map over the devices, whose run returns r;
\* after the last, the loop over the partitions and the value returned
devs_parts(t, r) ==
    /\ inv[t].kind = "helper"
    /\ inv[t].pc = "devs_parts"
    /\ LET L == inv[t].log
           order == DeviceOrder(t)
           asked == Len(L) - 1
           c == dry_run(SshCommand_new("lsblk -o KNAME /dev/" \o Text(order[asked + 1])),
                        inv[t].arg.dry_run)
           parts == [i \in 1..Len(order) |->
                        partitions_result(IF i <= asked THEN L[i + 1].res ELSE r)]
           last == asked + 1 = Len(order)
       IN  \E ret \in IF last THEN UnpartitionedResults(order, parts) ELSE {NoResult} :
               ShellCall(t, "devs_parts", "run", c, r,
                         IF last THEN "done" ELSE "devs_parts", ret)

----------------------------------------------------------------------------
(* Specifications *)

\* a step of the thread of slot x inside run or a task closure
Step(x, scripts) ==
    \/ lock_session(x)
    \/ \E sc \in scripts : channel_session(x, sc)
    \/ dry_run_close(x)
    \/ dry_run_wait_close(x)
    \/ request_pty(x)
    \/ exec(x)
    \/ read_stdout(x)
    \/ close(x)
    \/ wait_close(x)
    \/ read_stderr(x)
    \/ exit_status(x)

\* the calls of the threads `callers` on the shell they start with, with
\* commands from cmds against remotes from scripts
NextRun(callers, cmds, scripts) ==
    \/ \E t \in callers, c \in cmds : run(t, 0, c)
    \/ \E on \in BOOLEAN : set_dry_run(0, on)
    \/ toggle_dry_run(0)
    \/ \E x \in callers \cup Tasks : Step(x, scripts)

\* the same with at most max spawned tasks
NextSpawn(callers, cmds, scripts, conns, max) ==
    \/ NextRun(callers, cmds, scripts)
    \/ \E t \in callers, c \in cmds, conn \in conns : spawn(t, 0, c, conn, max)
    \/ \E t \in callers, k \in Tasks : join(t, k)

Plain == SshCommand_new(S_ls)

ScriptOk == Script(<< <<"o">> >>, <<>>, 0, NoFail)
ScriptExit1 == Script(<<>>, << <<"e">> >>, 1, NoFail)

ConnOutcomes == {"ok", "connect"}

\* Spec: one thread runs and spawns a command on its shell while it switches
\* the dry-run mode
SpawnCmds == {Plain}
SpawnScripts == {ScriptOk}

Next == NextSpawn({1}, SpawnCmds, SpawnScripts, ConnOutcomes, MaxSpawn)

Spec == Init /\ [][Next]_vars

\* SpecThreads: the callers run commands on the shell they share
ThreadCmds == {Plain, dry_run(Plain, TRUE)}
ThreadScripts == {ScriptOk, ScriptExit1}

NextThreads == NextRun(Callers, ThreadCmds, ThreadScripts)

SpecThreads == Init /\ [][NextThreads]_vars

\* SpecExec: one thread runs commands with every combination of the options
\* against remotes that answer or fail at each call
FailPoints ==
    {"channel_session", "request_pty", "exec", "read_stdout", "close",
     "wait_close", "read_stderr", "exit_status"}

ExecCmds == CommandsOver({S_ls, S_quote}, {S_dir})

ExecScripts ==
    {Script(out, err, e, NoFail) :
        out \in {<<>>, << <<"o">>, <<"k">> >>}, err \in {<<>>, << <<"e">> >>},
        e \in {0, 1, 2}}
    \cup {Script(<< <<"o">> >>, << <<"e">> >>, 1, f) : f \in FailPoints}

NextExec == NextRun({1}, ExecCmds, ExecScripts)

SpecExec == Init /\ [][NextExec]_vars

\* SpecDry: one thread runs and spawns commands with and without their own
\* dry_run flag while it switches the dry-run mode
DryCmds == {Plain, dry_run(Plain, TRUE)}

NextDry == NextSpawn({1}, DryCmds, SpawnScripts, ConnOutcomes, MaxJoinSpawn)

SpecDry == Init /\ [][NextDry]_vars

\* SpecJoin: one thread runs, spawns and joins commands whose outcome depends
\* on the remote
JoinCmds == {Plain, allow_error(Plain)}
JoinScripts == {ScriptOk, ScriptExit1}

NextJoin == NextSpawn({1}, JoinCmds, JoinScripts, ConnOutcomes, MaxJoinSpawn)

SpecJoin == Init /\ [][NextJoin]_vars

\* the steps of one thread that reconnects shell 0 while the remote comes and goes
NextLoop ==
    \/ reconnect(1, 0)
    \/ ReconnectStep(1)
    \/ net_change

\* SpecReconnect: one thread runs a command on its shell and reconnects it
NextReconnect ==
    \/ NextRun({1}, SpawnCmds, SpawnScripts)
    \/ NextLoop

SpecReconnect == Init /\ [][NextReconnect]_vars

\* SpecLoop: one thread reconnects its shell; the thread keeps running
SpecLoop == Init /\ [][NextLoop]_vars /\ WF_vars(ReconnectStep(1))

\* SpecConnect: one thread constructs a shell with with_key, duplicates and
\* reconnects it, and switches its dry-run mode
Usernames == {"markm", "root"}
Keys == {"id_rsa", "id_ed25519"}
Remotes == {"myhost:22"}

NextConnect ==
    \/ \E u \in Usernames, r \in Remotes, k \in Keys, o \in ConnectOutcomes :
          with_key(1, u, r, k, o)
    \/ \E s \in ShellIds, o \in ConnectOutcomes : duplicate(1, s, o, MaxJoinSpawn)
    \/ \E on \in BOOLEAN : set_dry_run(0, on)
    \/ toggle_dry_run(0)
    \/ NextLoop

SpecConnect == InitUnconnected /\ [][NextConnect]_vars

\* SpecBuild: one thread builds commands
BuildTexts == {S_ls, S_quote}
BuildDirs == {S_dir, <<"/">>}

NextBuild ==
    \/ \E text \in BuildTexts : build_new(1, text)
    \/ \E p \in BuildDirs : build_cwd(1, p)
    \/ build_use_bash(1)
    \/ build_allow_error(1)
    \/ \E is_dry \in BOOLEAN : build_dry_run(1, is_dry)
    \/ build_no_pty(1)

SpecBuild == Init /\ [][NextBuild]_vars

\* SpecEscape: one thread escapes strings over a small alphabet
EscapeChars == {"l", "s", "'", "\"", " "}

NextEscape ==
    \/ string_new(1)
    \/ \E ch \in EscapeChars : string_push(1, ch)
    \/ call_escape_for_bash(1)

SpecEscape == Init /\ [][NextEscape]_vars

\* SpecWord: one thread escapes strings that hold shell metacharacters
WordChars == {"a", "'", "\"", "$", Backtick, " ", "|"}

NextWord ==
    \/ string_new(1)
    \/ \E ch \in WordChars : string_push(1, ch)
    \/ call_escape_for_bash(1)

SpecWord == Init /\ [][NextWord]_vars

\* SpecHelpers: one thread calls the helpers of spurs-util on a shell whose
\* answers are scripted, as the TestSshShell of the tests does
MaxLines == 3

HelperArgs == {"foobar", "/dev/sda 1"}
HelperLists == {<<>>, <<"foobar">>, <<"foo", "bar">>}

\* the answer of the tests to blkid
TestBlkid ==
    <<"U", "U", "I", "D", "=", "1", "f", "b", "9", "5", "8", "b", "f", "-",
      "d", "e", "7", "e", "-", "4", "2", "8", "a", "-", "a", "0", "b", "7",
      "-", "a", "5", "9", "8", "f", "2", "2", "e", "9", "6", "f", "a", "\n">>

BlkidOutputs == {TestBlkid, <<" ", "U", "U", "I", "D", "=", "a", "\t", "\n">>, <<>>}

\* the answer of the tests to `lsblk -o KNAME /dev/foobar`
TestKname ==
    <<"K", "N", "A", "M", "E", "\n", "f", "o", "o", "b", "a", "r", "\n",
      "f", "o", "o", "\n", "b", "a", "r", "\n", "b", "a", "z", "\n">>

\* the answer of the tests to `lsblk -o KNAME,MOUNTPOINT`
TestKnameMountpoint ==
    <<"K", "N", "A", "M", "E", " ", "M", "O", "U", "N", "T", "P", "O", "I",
      "N", "T", "\n", "f", "o", "o", "b", "a", "r", "\n", "f", "o", "o",
      " ", " ", "/", "m", "n", "t", "/", "f", "o", "o", "\n", "b", "a",
      "r", " ", " ", "/", "m", "n", "t", "/", "b", "a", "r", "\n", "b",
      "a", "z", "\n", "s", "d", "b", "\n", "s", "d", "c">>

\* lines an lsblk can print: blank, a name, a name with spaces around it, names
\* with a mountpoint
LineTexts ==
    {<<>>, <<"a">>, <<" ", "a", " ">>, <<"a", " ", "m">>,
     <<"a", " ", " ", "n", " ", "x">>, <<"b", "\t", "m", "\r">>}

RECURSIVE Unlines(_)
\* every line followed by a newline
Unlines(ls) == IF ls = <<>> THEN <<>> ELSE Head(ls) \o <<"\n">> \o Unlines(Tail(ls))

\* the outputs of up to MaxLines lines, with and without the last newline
LsblkOutputs ==
    LET texts == {Unlines(ls) : ls \in UNION {[1..n -> LineTexts] : n \in 0..MaxLines}}
    IN  texts \cup {SubSeq(x, 1, Len(x) - 1) : x \in texts \ {<<>>}}
        \cup {TestKname, TestKnameMountpoint}

NextHelpers ==
    \/ \E f \in OneArgHelpers, a \in HelperArgs : call_helper(1, f, a)
    \/ \E f \in ListHelpers, a \in HelperLists : call_helper(1, f, a)
    \/ \E dry \in BOOLEAN : reboot(1, dry)
    \/ \E r \in RunResults({<<>>}) : reboot_run(1, r)
    \/ reboot_sleep(1)
    \/ \E r \in ReconnectResults : reboot_reconnect(1, r)
    \/ \E r \in RunResults({<<>>}) : reboot_whoami(1, r)
    \/ \E dry \in BOOLEAN, mount \in {"/mnt/point/", "/m"} :
          format_partition_as_ext4(1, dry, "/dev/foobar", mount, "me")
    \/ \E r \in RunResults(BlkidOutputs) :
          \* only blkid prints
          /\ inv[1].pc = "format_run"
          /\ (r.tag = "Ok" /\ r.stdout # <<>>) => Len(inv[1].log) = BlkidAt - 1
          /\ format_run(1, r)
    \/ \E dry \in BOOLEAN : get_partitions(1, "/dev/foobar", dry)
    \/ /\ inv[1].pc = "partitions_run"
       /\ \E r \in RunResults(LsblkOutputs) : partitions_run(1, r)
    \/ \E dry \in BOOLEAN : get_mounted_devs(1, dry)
    \/ /\ inv[1].pc = "mounted_run"
       /\ \E r \in RunResults(LsblkOutputs) : mounted_run(1, r)

SpecHelpers == Init /\ [][NextHelpers]_vars

\* SpecRead: one thread runs `ls` against remotes whose output comes in chunks
\* of every content: text, zero bytes, bytes that are not UTF-8, a character
\* split between two chunks, a chunk that fills the buffer
MaxChunk == 2

Bytes == {"o", NUL, BAD, LEAD, CONT}

\* a chunk that fills the buffer, and one that ends in the first byte of a
\* character
FullChunk == [i \in 1..BufSize |-> "o"]
SplitChunk == [i \in 1..BufSize |-> IF i = BufSize THEN LEAD ELSE "o"]

Chunks ==
    UNION {[1..n -> Bytes] : n \in 1..MaxChunk} \cup {FullChunk, SplitChunk}

\* what a second read can return
SecondChunks == {<<"o">>, <<NUL>>, <<CONT>>, <<CONT, "o">>}

ReadScripts ==
    {Script(out, err, 0, NoFail) :
        out \in {<<>>} \cup {<<a>> : a \in Chunks}
                \cup {<<a, b>> : a \in Chunks, b \in SecondChunks},
        err \in {<<>>, << <<"o">> >>, << <<NUL, "o">>, <<"o">> >>, << <<BAD>> >>}}

NextRead ==
    \/ run(1, 0, Plain)
    \/ \E on \in BOOLEAN : set_dry_run(0, on)
    \/ toggle_dry_run(0)
    \/ lock_session(1)
    \/ /\ inv[1].pc = "chan"
       /\ \E sc \in ReadScripts : channel_session(1, sc)
    \/ dry_run_close(1)
    \/ dry_run_wait_close(1)
    \/ request_pty(1)
    \/ exec(1)
    \/ read_stdout(1)
    \/ close(1)
    \/ wait_close(1)
    \/ read_stderr(1)
    \/ exit_status(1)

SpecRead == Init /\ [][NextRead]_vars

\* the steps of slot x inside run or inside its task when the command is
\* executed (the dry-run mode is off)
ExecStep(x) ==
    \/ lock_session(x)
    \/ channel_session(x, ScriptOk)
    \/ request_pty(x)
    \/ exec(x)
    \/ read_stdout(x)
    \/ close(x)
    \/ wait_close(x)
    \/ read_stderr(x)
    \/ exit_status(x)

\* SpecShells: one thread runs and spawns a command, joins it, and reconnects
\* its own shell and the shell spawn opened, while the remote comes and goes;
\* the dry-run mode stays off
NextShells ==
    \/ run(1, 0, Plain)
    \/ \E conn \in ConnOutcomes : spawn(1, 0, Plain, conn, MaxJoinSpawn)
    \/ \E k \in Tasks : join(1, k)
    \/ \E x \in {1} \cup Tasks : ExecStep(x)
    \/ \E s \in ShellIds : reconnect(1, s)
    \/ ReconnectStep(1)
    \/ net_change

SpecShells == Init /\ [][NextShells]_vars

\* SpecPaths: one thread runs and spawns commands, dry runs too, against
\* remotes that fail at each call of the channel, answer with exit status 1,
\* or print a byte that is not UTF-8
PathScripts ==
    {Script(<< <<"o">> >>, << <<"e">> >>, 1, f) : f \in FailPoints \cup {NoFail}}
    \cup {Script(<< <<BAD>> >>, <<>>, 0, NoFail)}

\* the remotes of the spawned commands: the channel is not opened, a read
\* fails, the exit status is 1, a byte is not UTF-8
TaskFailPoints == {"channel_session", "read_stdout", NoFail}

TaskScripts == {sc \in PathScripts : sc.fail \in TaskFailPoints}

NextPaths ==
    \/ \E c \in DryCmds : run(1, 0, c)
    \/ spawn(1, 0, Plain, "ok", MaxJoinSpawn)
    \/ Step(1, PathScripts)
    \/ \E k \in Tasks : Step(k, TaskScripts)

SpecPaths == Init /\ [][NextPaths]_vars

\* SpecDevs: one thread calls get_unpartitioned_devs on a shell whose answers
\* are scripted: the listing of the tests and shorter ones, and for each device
\* the partitions the tests answer, others, or an error
TestKnameAll ==
    <<"K", "N", "A", "M", "E", "\n", "f", "o", "o", "b", "a", "r", "\n",
      "f", "o", "o", "\n", "b", "a", "r", "\n", "b", "a", "z", "\n",
      "s", "d", "b", "\n", "s", "d", "c">>

TestKnameSd == <<"K", "N", "A", "M", "E", "\n", "s", "d", "b">>

TestKnameOther == <<"K", "N", "A", "M", "E", "\n", "f", "o", "o">>

\* what the shell of the tests prints for `lsblk -o KNAME /dev/<dev>`
TestAnswer(dev) ==
    IF dev = <<"f", "o", "o", "b", "a", "r">> THEN TestKname
    ELSE IF Len(dev) >= 2 /\ SubSeq(dev, 1, 2) = <<"s", "d">> THEN TestKnameSd
    ELSE TestKnameOther

\* a listing with a blank line, a name listed twice and spaces around a name
ShortListing ==
    <<"K", "N", "A", "M", "E", "\n", " ", "s", "d", "b", " ", "\n", "\n", "s", "d", "b",
      "\n", "b", "a", "z", "\n", "s", "d", "c", "\n">>

DevListings == {TestKnameAll, ShortListing, <<>>, <<"K", "N", "A", "M", "E", "\n">>}

\* what a device of ShortListing can be answered
PartListings ==
    {TestKnameSd, <<>>,
     <<"K", "N", "A", "M", "E", "\n", "s", "d", "b", "\n", " ", "s", "d", "c", "\n">>,
     <<"K", "N", "A", "M", "E", "\n", "s", "d", "b", "\n", "s", "d", "a", "\n", "b", "a", "z">>}

\* the answers to the question for the partitions of the next device: those of
\* the tests after the listing of the tests, any after another listing
PartAnswers ==
    IF inv[1].log[1].res.stdout = TestKnameAll
    THEN {TestAnswer(DeviceOrder(1)[Len(inv[1].log)])}
    ELSE PartListings

NextDevs ==
    \/ \E dry \in BOOLEAN : get_unpartitioned_devs(1, dry)
    \/ /\ inv[1].pc = "devs_list"
       /\ \E r \in RunResults(DevListings) : devs_list(1, r)
    \/ /\ inv[1].pc = "devs_parts"
       /\ \E r \in RunResults(PartAnswers) : devs_parts(1, r)

SpecDevs == Init /\ [][NextDevs]_vars

\* SpecOwner: in src/spurs/src/lib.rs one thread spawns commands, joins them,
\* and reconnects its own shell and the shells join returned, while the tasks
\* run and the remote comes and goes
NextOwner ==
    \/ \E conn \in ConnOutcomes : spawn(1, 0, Plain, conn, MaxJoinSpawn)
    \/ \E k \in Tasks : join(1, k)
    \/ \E k \in Tasks : ExecStep(k)
    \/ \E s \in ShellIds : reconnect(1, s)
    \/ ReconnectStep(1)
    \/ net_change

\* the revision of src/spurs/src/lib.rs
InitOwner == Init /\ rev = "new"

SpecOwner == InitOwner /\ [][NextOwner]_vars

\* SpecAfter: one thread runs and spawns a command on its shell, before and
\* after it reconnects the shell, while the remote comes and goes
NextAfter ==
    \/ run(1, 0, Plain)
    \/ spawn(1, 0, Plain, "ok", MaxJoinSpawn)
    \/ \E x \in {1} \cup Tasks : ExecStep(x)
    \/ NextLoop

\* the revisions of src/src/ssh.rs and src/spurs/src/ssh.rs
InitAfter == Init /\ rev \in {"old", "mid"}

SpecAfter == InitAfter /\ [][NextAfter]_vars

----------------------------------------------------------------------------
(* Properties *)

\* the slot holds the lock of its session
HoldsLock(x) == lock[inv[x].sess] = HeldBy(x)

\* the slot is between taking the lock and the return of the procedure
InRun(x) == inv[x].pc = "chan" \/ InChannel(x)

\* C1: two run calls on one shell from different threads serialize: a thread
\* holds the session lock from before its channel is opened until the
\* execution procedure returns, and no two threads have a channel of the same
\* shell open at the same time.
C1_RunsSerialize ==
    \A t \in Callers :
        /\ InRun(t) => HoldsLock(t)
        /\ \A u \in Callers \ {t} :
              inv[t].shell = inv[u].shell => ~(InRun(t) /\ InChannel(u))

\* a thread has executed its command and is reading, another waits for the lock
C1_Witness ==
    \E t, u \in Callers :
        /\ t # u
        /\ inv[t].pc = "rd_out"
        /\ inv[u].pc = "lock"
        /\ inv[u].shell = inv[t].shell

\* C2 as stated: commands spawned on one shell, and a run on that shell, never
\* have their channels open at the same time.
C2_Original ==
    \A x, y \in Slots :
        (x # y /\ InChannel(x) /\ InChannel(y)) => inv[x].of # inv[y].of

\* C2 amended: in src/src/ssh.rs the task shares the session of the shell and
\* spawned commands serialize with each other and with run; in the later
\* revisions each task locks the session of the shell that spawn opened for it,
\* so commands spawned on one shell may be open together; in every revision no
\* two commands have a channel open on the same session at the same time.
C2_SpawnSerializesPerSession ==
    /\ rev = "old" => C2_Original
    /\ \A x, y \in Slots :
          (x # y /\ InRun(x) /\ InChannel(y)) =>
              (inv[x].sess # inv[y].sess /\ HoldsLock(x) /\ HoldsLock(y))
    /\ \A k \in Tasks :
          inv[k].kind = "task" /\ ~inv[k].joined =>
              (inv[k].sess = shells[inv[k].of].sess) = (rev = "old")

\* a task is inside its command while another task of the same shell waits for
\* the session they share
C2_Witness ==
    \E j, k \in Tasks :
        /\ rev = "old"
        /\ inv[j].pc = "rd_out"
        /\ inv[k].pc = "lock"
        /\ inv[j].of = inv[k].of

----------------------------------------------------------------------------
(* The execution procedure *)

\* run_with_chan_and_opts has been entered with the channel of the slot
Entered(x) == InChannel(x) \/ inv[x].log # <<>>

Count(L, op) == Cardinality({i \in 1..Len(L) : L[i] = op})

Has(L, op) == \E i \in 1..Len(L) : L[i] = op

\* every call a comes before every call b
AllBefore(L, a, b) ==
    \A i, j \in 1..Len(L) : (L[i] = a /\ L[j] = b) => i < j

\* the exit status was read
ExitRead(x) ==
    /\ inv[x].log # <<>>
    /\ inv[x].log[Len(inv[x].log)] = "exit_status"
    /\ inv[x].script.fail # "exit_status"

RECURSIVE Captured(_)
\* the text the read loop collects from the chunks of a stream
Captured(chunks) ==
    IF chunks = <<>> THEN <<>>
    ELSE DecodeChunk(Head(chunks)) \o Captured(Tail(chunks))

\* C3: the exit status is asked for only after exec, after stdout was read to
\* its end, after close and wait_close, and after stderr was read to its end,
\* in this order.
C3_ExitStatusLast ==
    \A x \in Slots :
        LET L == inv[x].log
        IN  Has(L, "exit_status") =>
              /\ L[Len(L)] = "exit_status"
              /\ Count(L, "exit_status") = 1
              /\ Count(L, "exec") = 1
              /\ Count(L, "close") = 1
              /\ Count(L, "wait_close") = 1
              /\ Count(L, "read_stdout") = Len(inv[x].script.out) + 1
              /\ Count(L, "read_stderr") = Len(inv[x].script.err) + 1
              /\ AllBefore(L, "exec", "read_stdout")
              /\ AllBefore(L, "read_stdout", "close")
              /\ AllBefore(L, "close", "wait_close")
              /\ AllBefore(L, "wait_close", "read_stderr")
              /\ AllBefore(L, "read_stderr", "exit_status")

\* a command with two chunks of stdout and one of stderr has returned Ok
C3_Witness ==
    \E x \in Slots :
        /\ inv[x].pc = "done"
        /\ inv[x].res.tag = "Ok"
        /\ Has(inv[x].log, "exit_status")
        /\ Len(inv[x].script.out) = 2
        /\ Len(inv[x].script.err) = 1

\* C4: the procedure fails with NonZeroExit exactly when the exit status it
\* read is not zero and allow_error is false; the error carries the rewritten
\* command and the exit code, and nothing else.
C4_NonZeroExit ==
    \A x \in Slots :
        (inv[x].pc = "done" /\ inv[x].kind \in {"run", "task"}) =>
            LET r == inv[x].res
                c == inv[x].orig
            IN  /\ (r.tag = "NonZeroExit") =
                      (ExitRead(x) /\ inv[x].script.exit # 0 /\ ~c.allow_error)
                /\ r.tag = "NonZeroExit" =>
                      /\ DOMAIN r = {"tag", "cmd", "exit"}
                      /\ r.exit = inv[x].script.exit
                      /\ r.cmd = inv[x].wire
                      /\ (c.use_bash \/ c.cwd # None) => r.cmd # c.cmd

\* a command run through bash in a directory has failed with NonZeroExit
C4_Witness ==
    \E x \in Slots :
        /\ inv[x].pc = "done"
        /\ inv[x].res.tag = "NonZeroExit"
        /\ inv[x].orig.use_bash
        /\ inv[x].orig.cwd # None
        /\ inv[x].res.exit = 2

\* C5: a command with allow_error never fails with NonZeroExit; when the exit
\* status is not zero the call returns Ok with the captured stdout and stderr.
C5_AllowError ==
    \A x \in Slots :
        (inv[x].kind \in {"run", "task"} /\ inv[x].orig.allow_error) =>
            /\ inv[x].res.tag # "NonZeroExit"
            /\ (inv[x].pc = "done" /\ ExitRead(x)) =>
                  inv[x].res = Ok(Captured(inv[x].script.out),
                                  Captured(inv[x].script.err))

\* an allow_error command that exited with 2 has returned its output
C5_Witness ==
    \E x \in Slots :
        /\ inv[x].pc = "done"
        /\ inv[x].orig.allow_error
        /\ ExitRead(x)
        /\ inv[x].script.exit = 2
        /\ inv[x].res.tag = "Ok"
        /\ inv[x].res.stdout = <<"o", "k">>
        /\ inv[x].res.stderr = <<"e">>

\* C6: a dry-run command is never executed: the only calls on its channel are
\* close and then wait_close, its result has empty stdout and stderr, and it
\* never fails with NonZeroExit, whatever its text and its other flags.
C6_DryRun ==
    \A x \in Slots :
        (Entered(x) /\ inv[x].cmd.dry_run) =>
            /\ inv[x].log \in {<<>>, <<"close">>, <<"close", "wait_close">>}
            /\ inv[x].wire = <<>>
            /\ inv[x].res.tag # "NonZeroExit"
            /\ inv[x].pc = "done" =>
                  inv[x].res \in {Ok(<<>>, <<>>), SshErr("close"), SshErr("wait_close")}
            /\ (inv[x].pc = "done" /\ inv[x].script.fail \notin {"close", "wait_close"}) =>
                  (inv[x].res = Ok(<<>>, <<>>) /\ inv[x].log = <<"close", "wait_close">>)

\* a dry run of a bash command that asks for a pty, against a remote that would
\* have answered with output and exit status 2, has returned the empty result
C6_Witness ==
    \E x \in Slots :
        /\ inv[x].pc = "done"
        /\ inv[x].cmd.dry_run
        /\ inv[x].cmd.use_bash
        /\ ~inv[x].cmd.no_pty
        /\ ~inv[x].cmd.allow_error
        /\ inv[x].script.exit = 2
        /\ inv[x].script.out # <<>>
        /\ inv[x].res = Ok(<<>>, <<>>)

\* C8: without no_pty the pty is requested before exec; a failed pty request
\* is returned at once, is not repeated, and exec is not called; with no_pty
\* no pty is requested.
C8_Pty ==
    \A x \in Slots :
        LET L == inv[x].log
        IN  Entered(x) =>
              /\ (~inv[x].cmd.no_pty /\ Has(L, "exec")) =>
                    (L[1] = "request_pty" /\ L[2] = "exec")
              /\ Count(L, "request_pty") <= 1
              /\ (Has(L, "request_pty") /\ inv[x].script.fail = "request_pty") =>
                    /\ inv[x].pc = "done"
                    /\ inv[x].res = SshErr("request_pty")
                    /\ L = <<"request_pty">>
                    /\ inv[x].wire = <<>>
              /\ inv[x].cmd.no_pty => ~Has(L, "request_pty")

\* a pty request has failed
C8_Witness ==
    \E x \in Slots :
        /\ inv[x].pc = "done"
        /\ inv[x].res = SshErr("request_pty")
        /\ inv[x].log = <<"request_pty">>

\* C9: the string executed is the text, wrapped as `bash -c <escaped text>` if
\* use_bash, and then prefixed with `cd <dir> ; ` if a directory is set; the
\* message displayed is the text as given.
C9_Rewrite ==
    \A x \in Slots :
        LET c == inv[x].orig
            esc == Escape(rev, c.cmd)
        IN  /\ Entered(x) => inv[x].msg = c.cmd
            /\ Has(inv[x].log, "exec") =>
                  /\ (~c.use_bash /\ c.cwd = None) => inv[x].wire = c.cmd
                  /\ (c.use_bash /\ c.cwd = None) =>
                        inv[x].wire = S_bash_c \o esc
                  /\ (~c.use_bash /\ c.cwd # None) =>
                        inv[x].wire = S_cd \o c.cwd[1] \o S_semi \o c.cmd
                  /\ (c.use_bash /\ c.cwd # None) =>
                        inv[x].wire = S_cd \o c.cwd[1] \o S_semi \o S_bash_c \o esc
                  /\ (c.use_bash /\ c.cwd # None /\ c.cmd = S_ls /\ rev # "new") =>
                        inv[x].wire = <<"c", "d", " ", "/", "t", " ", ";", " ",
                                        "b", "a", "s", "h", " ", "-", "c", " ",
                                        "'", "l", "s", "'">>

\* `i's` was executed through bash in /t
C9_Witness ==
    \E x \in Slots :
        /\ rev = "mid"
        /\ inv[x].orig.cmd = S_quote
        /\ inv[x].wire = <<"c", "d", " ", "/", "t", " ", ";", " ",
                           "b", "a", "s", "h", " ", "-", "c", " ",
                           "'", "i", "'", "\"", "'", "\"", "'", "s", "'">>

----------------------------------------------------------------------------
(* Dry-run mode, spawn and join *)

\* C7: with the dry-run mode of the shell on at the call, the command of a run
\* or spawn is executed as a dry run whatever its own dry_run flag; with the
\* mode off the command is executed as given; exec is called only for a
\* command whose flag was false, called with the mode off.
C7_DryRunMode ==
    \A x \in Slots :
        inv[x].kind \in {"run", "task"} =>
            /\ (Entered(x) \/ inv[x].kind = "task") =>
                  /\ inv[x].mode => inv[x].cmd.dry_run
                  /\ ~inv[x].mode => inv[x].cmd.dry_run = inv[x].orig.dry_run
                  /\ [inv[x].cmd EXCEPT !.dry_run = FALSE]
                        = [inv[x].orig EXCEPT !.dry_run = FALSE]
            /\ Has(inv[x].log, "exec") => (~inv[x].mode /\ ~inv[x].orig.dry_run)
            /\ (inv[x].pc = "done" /\ inv[x].res.tag = "Ok"
                  /\ ~inv[x].mode /\ ~inv[x].orig.dry_run) => Has(inv[x].log, "exec")

\* a command without the flag, spawned while the mode was on, has returned
\* without exec, and the mode is off again
C7_Witness ==
    \E k \in Tasks :
        /\ inv[k].kind = "task"
        /\ inv[k].mode
        /\ ~inv[k].orig.dry_run
        /\ inv[k].pc = "done"
        /\ inv[k].log = <<"close", "wait_close">>
        /\ ~shells[0].dry_run_mode

\* C10: join returns only once the task has finished, and returns the result
\* of the task, which is the result a run of the same command, called with the
\* same dry-run mode against a remote answering the same, returns.
C10_JoinYieldsRunResult ==
    /\ \A t \in Callers :
          inv[t].kind = "join" =>
              /\ inv[inv[t].task].pc = "done"
              /\ inv[t].res = inv[inv[t].task].res
              /\ inv[t].res.tag \in {"Ok", "NonZeroExit", "SshError", "Panic"}
    /\ \A t \in Callers, k \in Tasks :
          (/\ inv[t].kind = "run" /\ inv[t].pc = "done"
           /\ inv[k].kind = "task" /\ inv[k].pc = "done"
           /\ inv[t].orig = inv[k].orig
           /\ inv[t].mode = inv[k].mode
           /\ inv[t].script = inv[k].script) => inv[t].res = inv[k].res

\* join has returned the NonZeroExit of a task
C10_Witness ==
    \E t \in Callers :
        /\ inv[t].kind = "join"
        /\ inv[t].res.tag = "NonZeroExit"
        /\ inv[inv[t].task].joined

----------------------------------------------------------------------------
(* Program order *)

\* the call of the slot has returned and its execution procedure is over: it
\* read the exit status, returned an error, or returned from the dry-run branch
ProcedureOver(x) ==
    /\ inv[x].pc = "done"
    /\ ~HoldsLock(x)
    /\ \/ ExitRead(x)
       \/ inv[x].res.tag \in {"SshError", "Panic"}
       \/ inv[x].cmd.dry_run /\ inv[x].res = Ok(<<>>, <<>>)

\* C11: runs on one shell execute in program order: a thread issues a run only
\* after its earlier run has returned, a run returns only when its execution
\* procedure is over, and when a run calls exec every other command on the
\* same session either is over or has not yet got the lock.
C11_ProgramOrder ==
    [][\A t \in Callers :
          /\ (inv'[t].pc = "lock" /\ inv[t].pc # "lock") =>
                /\ inv[t].pc \in {"idle", "done"}
                /\ inv[t].kind = "run" => ProcedureOver(t)
          /\ (Has(inv'[t].log, "exec") /\ ~Has(inv[t].log, "exec")) =>
                \A u \in Slots \ {t} :
                    (inv[u].kind \in {"run", "task"} /\ inv[u].sess = inv[t].sess) =>
                        (inv[u].pc = "lock" \/ ProcedureOver(u))]_vars

\* a run is past exec while an earlier run on the same shell has read its exit
\* status and returned
C11_Witness ==
    \E t, u \in Callers :
        /\ t # u
        /\ inv[u].kind = "run" /\ ProcedureOver(u) /\ ExitRead(u)
        /\ inv[t].kind = "run" /\ inv[t].pc = "rd_out"
        /\ inv[t].shell = inv[u].shell

----------------------------------------------------------------------------
(* Reconnecting *)

\* the calls reconnect makes once a connect has succeeded
AfterLoop == <<"connect_timeout", "handshake", "userauth_pubkey_file", "authenticated">>

IsPrefix(a, b) == Len(a) <= Len(b) /\ a = SubSeq(b, 1, Len(a))

\* the thread is in the connect loop of reconnect
InLoop(t) == inv[t].pc \in {"rc_connect", "rc_sleep"}

\* C12: in reconnect only the connect is retried. A failed connect is never
\* returned: it is followed by the sleep and by another connect. After the
\* connect that succeeded, handshake and authentication are attempted once; a
\* handshake or authentication error is returned as it is and a session that
\* is not authenticated gives AuthFailed with the key of the shell.
C12_OnlyConnectRetried ==
    /\ [](\A t \in Callers :
            inv[t].kind = "reconnect" =>
                LET L == inv[t].log
                    r == inv[t].res
                IN  /\ IsPrefix(L, AfterLoop)
                    /\ InLoop(t) = (L = <<>>)
                    /\ inv[t].pc = "done" =>
                          /\ r.tag \in {"SshError", "AuthFailed", "Unit", "Panic"}
                          /\ r.tag = "SshError" =>
                                /\ r.at \in {"handshake", "userauth_pubkey_file"}
                                /\ L[Len(L)] = r.at
                          /\ (r.tag = "AuthFailed") =
                                (Len(L) = 4 /\ ~inv[t].local.authed)
                          /\ r.tag = "AuthFailed" => r.key = shells[inv[t].shell].key)
    /\ [][\A t \in Callers :
            /\ (inv[t].pc = "rc_connect" /\ ~net.up /\ inv'[t] # inv[t]) =>
                  (inv'[t].pc = "rc_sleep" /\ inv'[t].res = NoResult)
            /\ (inv[t].pc = "rc_sleep" /\ inv'[t] # inv[t]) =>
                  inv'[t].pc = "rc_connect"]_vars

\* after a connect that failed and one that succeeded the remote did not
\* authenticate the session, and reconnect has returned AuthFailed
C12_Witness ==
    \E t \in Callers :
        /\ inv[t].kind = "reconnect"
        /\ inv[t].pc = "done"
        /\ inv[t].tries >= 1
        /\ inv[t].res = AuthFailed("id_rsa")
        /\ inv[t].log = AfterLoop

\* C13: the connect loop of reconnect goes on for as long as the connect fails
\* and ends with the first connect that succeeds. If from some time on the
\* remote accepts connections, a thread in the loop leaves it and goes on to
\* the handshake; the loop is left only by a connect that the remote accepted;
\* and if the remote never accepts again, the thread stays in the loop and
\* reconnect does not return.
C13_ConnectLoop ==
    /\ (<>[](net.up)) => (InLoop(1) ~> inv[1].pc = "rc_handshake")
    /\ [][(InLoop(1) /\ ~InLoop(1)') =>
            (inv[1].pc = "rc_connect" /\ net.up /\ inv'[1].pc = "rc_handshake")]_vars
    /\ []((InLoop(1) /\ [](~net.up)) => []InLoop(1))

\* a reconnect is past the loop after more than one connect
C13_Witness ==
    /\ inv[1].kind = "reconnect"
    /\ inv[1].pc = "rc_handshake"
    /\ inv[1].tries = MaxTries

\* the session the shell holds did its handshake over the transport the shell
\* holds
Paired(s) == session[shells[s].sess].over = shells[s].tcp

\* reconnect has returned to thread t
Reconnected(t) == inv[t].kind = "reconnect" /\ inv[t].pc = "done"

\* C14 as stated: whenever reconnect has returned, with Ok or with an error,
\* the session of the shell is the one established over the transport of the
\* shell.
C14_Original ==
    \A t \in Callers : Reconnected(t) => Paired(inv[t].shell)

\* C14, what the code does: the transport is replaced inside the loop and the
\* session only before Ok is returned, so after Ok the shell holds the new
\* session over the new transport, and after an error it holds the new
\* transport with the session established over the earlier one.
C14_TransportReplacedFirst ==
    \A t \in Callers :
        Reconnected(t) =>
            LET s == inv[t].shell
            IN  /\ shells[s].tcp \in ReconnIds
                /\ inv[t].res = OkUnit =>
                      (Paired(s) /\ session[shells[s].sess] = inv[t].local)
                /\ inv[t].res.tag \in {"SshError", "AuthFailed"} =>
                      (~Paired(s) /\ session[shells[s].sess] # inv[t].local)

\* the handshake of a reconnect has failed: the shell holds the transport the
\* loop opened and the session it had before
C14_Witness ==
    \E t \in Callers :
        /\ Reconnected(t)
        /\ inv[t].res = SshErr("handshake")
        /\ shells[inv[t].shell].tcp = ReconnId(1)
        /\ session[shells[inv[t].shell].sess].over = 0

----------------------------------------------------------------------------
(* Constructing shells *)

\* the session of shell s is authenticated
Authenticated(s) == session[shells[s].sess].made /\ session[shells[s].sess].authed

\* C15: with_key returns a shell only when connect, handshake and
\* authentication all succeeded; a connect, handshake or authentication error
\* is returned as that error, a session that is not authenticated gives
\* AuthFailed with the key that was given, and in both cases no shell is made;
\* every shell that with_key, from_existing or reconnect leaves behind holds an
\* authenticated session.
C15_OnlyAuthenticatedShells ==
    /\ \A s \in ShellIds : shells[s].made => Authenticated(s)
    /\ \A t \in Callers :
          inv[t].kind = "with_key" =>
              LET key == inv[t].arg[3]
                  o == inv[t].arg[4]
              IN  /\ (inv[t].res = OkShell(0)) = (o = "ok")
                  /\ o \in {"connect", "handshake", "userauth_pubkey_file"} =>
                        inv[t].res = SshErr(o)
                  /\ o = "unauthenticated" => inv[t].res = AuthFailed(key)
                  /\ o # "ok" => ~shells[0].made
                  /\ o = "ok" => (shells[0].made /\ shells[0].key = key)
    /\ \A t \in Callers :
          inv[t].kind = "duplicate" =>
              LET src == inv[t].arg[1]
                  o == inv[t].arg[2]
              IN  /\ (inv[t].res.tag = "Shell") = (o = "ok")
                  /\ o \in {"connect", "handshake", "userauth_pubkey_file"} =>
                        inv[t].res = SshErr(o)
                  /\ o = "unauthenticated" => inv[t].res = AuthFailed(src.key)
    /\ \A t \in Callers :
          (Reconnected(t) /\ inv[t].res = OkUnit) => inv[t].local.authed

\* with_key has returned AuthFailed with the key it was given, and there is no
\* shell
C15_Witness ==
    \E t \in Callers :
        /\ inv[t].kind = "with_key"
        /\ inv[t].arg[4] = "unauthenticated"
        /\ inv[t].res = AuthFailed("id_ed25519")
        /\ ~shells[0].made

\* thread t has just got a shell back from the call named kind
Returned(t, kind) ==
    /\ inv'[t] # inv[t]
    /\ inv'[t].kind = kind
    /\ inv'[t].res.tag = "Shell"

\* C16: the shell with_key returns has the username, the key and the remote
\* it was given and dry-run mode off; the shell from_existing (duplicate)
\* returns has dry-run mode off whatever the mode of the source, the username,
\* key and remote of the source, and a transport, a session and a lock that no
\* other shell has; the source, its session and its lock are left as they were.
C16_FreshShell ==
    [][\A t \in Callers :
          /\ Returned(t, "with_key") =>
                LET new == shells'[inv'[t].res.shell]
                IN  /\ new.made /\ new.live
                    /\ ~new.dry_run_mode
                    /\ <<new.username, new.remote, new.key>>
                          = SubSeq(inv'[t].arg, 1, 3)
          /\ Returned(t, "duplicate") =>
                LET k == inv'[t].res.shell
                    s == inv'[t].of
                    new == shells'[k]
                    src == shells[s]
                IN  /\ k # s
                    /\ ~shells[k].made /\ new.made /\ new.live
                    /\ ~new.dry_run_mode
                    /\ new.username = src.username
                    /\ new.key = src.key
                    /\ new.remote = src.remote
                    /\ \A other \in ShellIds \ {k} :
                          shells'[other].made =>
                              /\ shells'[other].sess # new.sess
                              /\ shells'[other].tcp # new.tcp
                    /\ session[new.sess] = NoSession
                    /\ session'[new.sess].over = new.tcp
                    /\ lock'[new.sess] = Unlocked
                    /\ shells'[s] = src
                    /\ session'[src.sess] = session[src.sess]
                    /\ lock'[src.sess] = lock[src.sess]]_vars

\* a shell whose dry-run mode was on has been duplicated, and the new shell
\* has the mode off
C16_Witness ==
    \E t \in Callers :
        /\ inv[t].kind = "duplicate"
        /\ inv[t].res.tag = "Shell"
        /\ inv[t].arg[1].dry_run_mode
        /\ inv[t].arg[1].username = "root"
        /\ shells[inv[t].res.shell].username = "root"
        /\ ~shells[inv[t].res.shell].dry_run_mode

----------------------------------------------------------------------------
(* SshCommand builders *)

\* the builder calls over the texts and directories of SpecBuild
BuilderCalls ==
    {<<"cwd", p>> : p \in BuildDirs} \cup {<<"dry_run", b>> : b \in BOOLEAN}
    \cup {<<"use_bash">>, <<"allow_error">>, <<"no_pty">>}

\* the builder call applied to a command
Apply(call, c) ==
    CASE call[1] = "cwd" -> cwd(c, call[2])
      [] call[1] = "use_bash" -> use_bash(c)
      [] call[1] = "allow_error" -> allow_error(c)
      [] call[1] = "dry_run" -> dry_run(c, call[2])
      [] call[1] = "no_pty" -> no_pty(c)

RECURSIVE ApplyAll(_, _)
\* the calls of L applied to c, the first one first
ApplyAll(L, c) == IF L = <<>> THEN c ELSE ApplyAll(Tail(L), Apply(Head(L), c))

Reverse(L) == [i \in 1..Len(L) |-> L[Len(L) + 1 - i]]

\* the positions of L where the builder named f was called
CallsOf(L, f) == {i \in 1..Len(L) : L[i][1] = f}

Last(I) == CHOOSE i \in I : \A j \in I : j <= i

\* thread t keeps a command it has built
Building(t) == inv[t].kind = "build"

\* C17: SshCommand::new(text) has the text, no directory and every flag off;
\* after any builder calls each field has its default if no builder of that
\* field was called and otherwise what the last call of that builder set.
C17_BuilderFields ==
    \A t \in Callers :
        Building(t) =>
            LET c == inv[t].cmd
                L == inv[t].log
                text == inv[t].arg[1]
            IN  /\ DOMAIN c = {"cmd", "cwd", "use_bash", "allow_error", "dry_run", "no_pty"}
                /\ c.cmd = text
                /\ c.cwd = IF CallsOf(L, "cwd") = {} THEN <<>>
                           ELSE <<L[Last(CallsOf(L, "cwd"))][2]>>
                /\ c.use_bash = (CallsOf(L, "use_bash") # {})
                /\ c.allow_error = (CallsOf(L, "allow_error") # {})
                /\ c.dry_run = IF CallsOf(L, "dry_run") = {} THEN FALSE
                               ELSE L[Last(CallsOf(L, "dry_run"))][2]
                /\ c.no_pty = (CallsOf(L, "no_pty") # {})
                /\ L = <<>> =>
                      c = [cmd |-> text, cwd |-> <<>>, use_bash |-> FALSE,
                           allow_error |-> FALSE, dry_run |-> FALSE, no_pty |-> FALSE]

\* a command was built with no_pty, cwd and dry_run(true)
C17_Witness ==
    \E t \in Callers :
        /\ Building(t)
        /\ inv[t].log = << <<"no_pty">>, <<"cwd", S_dir>>, <<"dry_run", TRUE>> >>
        /\ inv[t].cmd = [cmd |-> S_quote, cwd |-> <<S_dir>>, use_bash |-> FALSE,
                         allow_error |-> FALSE, dry_run |-> TRUE, no_pty |-> TRUE]

\* C18: builder calls that set different fields commute: applied to the
\* command a thread has built, two such calls give equal commands in either
\* order, and a command built by calls on different fields equals the command
\* built by the same calls in the opposite order.
C18_BuildersCommute ==
    \A t \in Callers :
        Building(t) =>
            LET c == inv[t].cmd
                L == inv[t].log
            IN  /\ \A a, b \in BuilderCalls :
                      a[1] # b[1] => Apply(b, Apply(a, c)) = Apply(a, Apply(b, c))
                /\ (\A i, j \in 1..Len(L) : i # j => L[i][1] # L[j][1]) =>
                      c = ApplyAll(Reverse(L), SshCommand_new(inv[t].arg[1]))
                /\ \A p \in BuildDirs : use_bash(cwd(c, p)) = cwd(use_bash(c), p)

\* a command was built with cwd and then use_bash
C18_Witness ==
    \E t \in Callers :
        /\ Building(t)
        /\ inv[t].log = << <<"cwd", S_dir>>, <<"use_bash">> >>
        /\ inv[t].cmd = cwd(use_bash(SshCommand_new(S_ls)), S_dir)

\* the fields in which two commands differ
Differ(c, d) == {f \in DOMAIN c : c[f] # d[f]}

\* C19: a builder call changes at most the field it names and never the text:
\* every step that makes a builder call leaves the other fields of the
\* command as they were, and so does every builder applied to a built command.
C19_BuilderFrame ==
    /\ [](\A t \in Callers :
            Building(t) =>
                LET c == inv[t].cmd
                IN  /\ \A p \in BuildDirs : Differ(c, cwd(c, p)) \subseteq {"cwd"}
                    /\ Differ(c, use_bash(c)) \subseteq {"use_bash"}
                    /\ Differ(c, allow_error(c)) \subseteq {"allow_error"}
                    /\ \A b \in BOOLEAN : Differ(c, dry_run(c, b)) \subseteq {"dry_run"}
                    /\ Differ(c, no_pty(c)) \subseteq {"no_pty"})
    /\ [][\A t \in Callers :
            (Building(t) /\ Len(inv'[t].log) = Len(inv[t].log) + 1) =>
                /\ Differ(inv[t].cmd, inv'[t].cmd)
                      \subseteq {inv'[t].log[Len(inv'[t].log)][1]}
                /\ inv'[t].cmd.cmd = inv[t].cmd.cmd]_vars

\* cwd was called on a command that had every flag set: the flags are kept
C19_Witness ==
    \E t \in Callers :
        /\ Building(t)
        /\ inv[t].log = << <<"use_bash">>, <<"no_pty">>, <<"cwd", S_dir>> >>
        /\ inv[t].cmd.use_bash /\ inv[t].cmd.no_pty /\ inv[t].cmd.cwd = <<S_dir>>
        /\ inv[t].cmd.cmd = S_quote

----------------------------------------------------------------------------
(* escape_for_bash *)

\* what a single quote of the input becomes
QuotedQuote == <<"'", "\"", "'", "\"", "'">>

\* the number of single quotes among the first n characters of str
QuotesBefore(str, n) == Cardinality({i \in 1..n : str[i] = "'"})

\* where the image of the i-th character of str starts in the output
ImageAt(str, i) == 1 + i + 4 * QuotesBefore(str, i - 1)

\* thread t has called escape_for_bash on its string
Escaped(t) == inv[t].kind = "string" /\ inv[t].res.tag = "String"

\* C20: escape_for_bash(s) is a single quote, then the characters of s in
\* order, each single quote replaced by '"'"' and every other character
\* copied, then a single quote; "ls" gives 'ls'.
C20_QuoteWrap ==
    \A t \in Callers :
        Escaped(t) =>
            LET str == inv[t].msg
                out == inv[t].res.str
            IN  /\ Len(out) = Len(str) + 2 + 4 * QuotesBefore(str, Len(str))
                /\ out[1] = "'"
                /\ out[Len(out)] = "'"
                /\ \A i \in 1..Len(str) :
                      LET at == ImageAt(str, i)
                      IN  IF str[i] = "'"
                          THEN SubSeq(out, at, at + 4) = QuotedQuote
                          ELSE out[at] = str[i]
                /\ str = <<"l", "s">> => out = <<"'", "l", "s", "'">>

\* `l's` was escaped
C20_Witness ==
    \E t \in Callers :
        /\ Escaped(t)
        /\ inv[t].msg = <<"l", "'", "s">>
        /\ inv[t].res.str = <<"'", "l", "'", "\"", "'", "\"", "'", "s", "'">>

----------------------------------------------------------------------------
(* escape_for_bash read back by a POSIX shell *)

\* the characters a backslash quotes inside double quotes
DoubleEscapable == {"$", Backtick, "\"", "\\"}

\* the characters that are not literal outside quotes
Operators == {" ", "|", "$", Backtick}

NotAWord == [ok |-> FALSE, word |-> <<>>]

RECURSIVE ParseFrom(_, _, _)
\* the shell reads the rest w of a word in quoting mode m, having read acc
ParseFrom(w, m, acc) ==
    IF w = <<>>
    THEN IF m = "none" THEN [ok |-> TRUE, word |-> acc] ELSE NotAWord
    ELSE LET c == Head(w)
             rest == Tail(w)
         IN  CASE m = "single" ->
                    IF c = "'" THEN ParseFrom(rest, "none", acc)
                    ELSE ParseFrom(rest, "single", Append(acc, c))
               [] m = "double" ->
                    IF c = "\"" THEN ParseFrom(rest, "none", acc)
                    ELSE IF c = "\\" /\ rest # <<>> /\ Head(rest) \in DoubleEscapable
                    THEN ParseFrom(Tail(rest), "double", Append(acc, Head(rest)))
                    ELSE IF c \in {"$", Backtick} THEN NotAWord
                    ELSE ParseFrom(rest, "double", Append(acc, c))
               [] OTHER ->
                    IF c = "'" THEN ParseFrom(rest, "single", acc)
                    ELSE IF c = "\"" THEN ParseFrom(rest, "double", acc)
                    ELSE IF c = "\\"
                    THEN IF rest = <<>> THEN NotAWord
                         ELSE ParseFrom(Tail(rest), "none", Append(acc, Head(rest)))
                    ELSE IF c \in Operators THEN NotAWord
                    ELSE ParseFrom(rest, "none", Append(acc, c))

\* the one word a POSIX shell reads from w, if w is one word
ParseWord(w) == ParseFrom(w, "none", <<>>)

\* C21: a POSIX shell that reads escape_for_bash(s) as a word (single-quoted
\* segments literal, a double-quoted single quote giving a single quote,
\* adjacent segments concatenated) gets exactly s, whatever single quotes,
\* double quotes, dollar signs, backticks, spaces and pipes s holds.
C21_RoundTrip ==
    \A t \in Callers :
        Escaped(t) => ParseWord(inv[t].res.str) = [ok |-> TRUE, word |-> inv[t].msg]

\* a string with a single quote, a dollar sign and a space was escaped and
\* reads back
C21_Witness ==
    \E t \in Callers :
        /\ Escaped(t)
        /\ inv[t].msg = <<"'", "$", " ">>
        /\ inv[t].res.str = <<"'", "'", "\"", "'", "\"", "'", "$", " ", "'">>
        /\ ParseWord(inv[t].res.str).word = inv[t].msg

----------------------------------------------------------------------------
(* The helpers of spurs-util *)

\* thread t is in, or has returned from, the helper named f
HelperOf(t, f) == inv[t].kind = "helper" /\ inv[t].arg.fn = f

\* the command with the given text and flags and nothing else set
Command(text, bash, dry) ==
    [cmd |-> text, cwd |-> None, use_bash |-> bash, allow_error |-> FALSE,
     dry_run |-> dry, no_pty |-> FALSE]

\* C22: reboot with dry_run false runs `sudo reboot`, reconnects, then runs
\* `whoami`, and makes no other call; what the run of `sudo reboot` returns is
\* ignored; if reconnect fails `whoami` is not run; reboot returns Ok exactly
\* when reconnect and the run of `whoami` both succeeded.
C22_Reboot ==
    \A t \in Callers :
        (HelperOf(t, "reboot") /\ ~inv[t].arg.dry_run) =>
            LET L == inv[t].log
                calls == <<"run", "reconnect", "run">>
                cmds == <<Command("sudo reboot", FALSE, FALSE), NoCommand,
                          Command("whoami", FALSE, FALSE)>>
            IN  /\ Len(L) <= 3
                /\ \A i \in 1..Len(L) : L[i].call = calls[i] /\ L[i].cmd = cmds[i]
                /\ Len(L) = 3 => ~IsErr(L[2].res)
                /\ inv[t].pc = "done" =>
                      /\ Len(L) >= 2
                      /\ IsErr(L[2].res) => Len(L) = 2
                      /\ ~IsErr(L[2].res) => Len(L) = 3
                      /\ inv[t].res = OkUnit <=>
                            (Len(L) = 3 /\ ~IsErr(L[2].res) /\ ~IsErr(L[3].res))
                      /\ inv[t].res # OkUnit => IsErr(inv[t].res)

\* the run of `sudo reboot` failed and reboot returned Ok after a reconnect
\* and a run of `whoami`
C22_Witness ==
    \E t \in Callers :
        /\ HelperOf(t, "reboot")
        /\ ~inv[t].arg.dry_run
        /\ inv[t].pc = "done"
        /\ inv[t].res = OkUnit
        /\ Len(inv[t].log) = 3
        /\ IsErr(inv[t].log[1].res)
        /\ inv[t].log[2].call = "reconnect"
        /\ inv[t].log[3].cmd.cmd = "whoami"

\* s without the white space before its first and after its last character
\* that is not white space
Trimmed(s) ==
    LET inked == {i \in 1..Len(s) : s[i] \notin Whitespace}
    IN  IF inked = {} THEN <<>>
        ELSE SubSeq(s, CHOOSE i \in inked : \A j \in inked : i <= j,
                       CHOOSE i \in inked : \A j \in inked : j <= i)

\* the line format_partition_as_ext4 appends to /etc/fstab
FstabCommand(uuid, mount) ==
    "echo \"" \o uuid \o "    " \o mount
    \o "    ext4    defaults    0    1\" | sudo tee -a /etc/fstab"

\* the texts of the commands of format_partition_as_ext4 other than the
\* twelfth
FormatTexts(a) ==
    << "lsblk",
       "sudo mkfs.ext4 " \o a.partition,
       "mkdir -p /tmp/tmp_mnt",
       "sudo mount -t ext4 " \o a.partition \o " /tmp/tmp_mnt",
       "sudo chown " \o a.owner \o " /tmp/tmp_mnt",
       "rsync -a " \o a.mount \o "/ /tmp/tmp_mnt/",
       "sync",
       "sudo umount /tmp/tmp_mnt",
       "sudo mount -t ext4 " \o a.partition \o " " \o a.mount,
       "sudo chown " \o a.owner \o " " \o a.mount,
       "sudo blkid -o export " \o a.partition \o " | grep '^UUID='",
       "",
       "lsblk" >>

\* C23 as stated: format_partition_as_ext4 issues twelve commands, the
\* second-to-last appending the fstab line made of the trimmed blkid output and
\* the mountpoint and the last being `lsblk`.
C23_Original ==
    \A t \in Callers :
        (HelperOf(t, "format_partition_as_ext4") /\ inv[t].res = OkUnit) =>
            LET L == inv[t].log
            IN  /\ Len(L) = 12
                /\ L[12].cmd.cmd = "lsblk"
                /\ L[11].cmd.cmd =
                      FstabCommand(Text(Trimmed(L[10].res.stdout)), inv[t].arg.mount)

\* C23: format_partition_as_ext4 issues its commands in a fixed order, each
\* after the one before succeeded: thirteen commands when it returns Ok, the
\* eleventh being the blkid command run through bash, the twelfth
\* (second-to-last) appending `<u>    <mountpoint>    ext4    defaults    0    1`
\* to /etc/fstab where <u> is the trimmed output of blkid, and the thirteenth
\* being `lsblk`.
C23_FormatOrder ==
    \A t \in Callers :
        HelperOf(t, "format_partition_as_ext4") =>
            LET L == inv[t].log
                a == inv[t].arg
                texts == FormatTexts(a)
            IN  /\ Len(L) <= 13
                /\ \A i \in 1..Len(L) :
                      /\ L[i].call = "run"
                      /\ i < Len(L) => ~IsErr(L[i].res)
                      /\ i # 12 => L[i].cmd = Command(texts[i], i = 11, a.dry_run)
                /\ Len(L) >= 12 =>
                      L[12].cmd =
                          Command(FstabCommand(Text(Trimmed(L[11].res.stdout)), a.mount),
                                  FALSE, a.dry_run)
                /\ inv[t].res = OkUnit =>
                      Len(L) = 13 /\ ~IsErr(L[13].res) /\ inv[t].pc = "done"
                /\ inv[t].pc = "done" =>
                      inv[t].res = OkUnit \/ inv[t].res = L[Len(L)].res

\* the formatting of /dev/foobar for /mnt/point/ returned Ok after blkid
\* printed the UUID of the tests followed by a newline
C23_Witness ==
    \E t \in Callers :
        /\ HelperOf(t, "format_partition_as_ext4")
        /\ inv[t].res = OkUnit
        /\ inv[t].arg.mount = "/mnt/point/"
        /\ ~inv[t].arg.dry_run
        /\ Len(inv[t].log) = 13
        /\ inv[t].log[11].res.stdout = TestBlkid
        /\ inv[t].log[12].cmd.cmd =
              "echo \"UUID=1fb958bf-de7e-428a-a0b7-a598f22e96fa    /mnt/point/    ext4    defaults    0    1\" | sudo tee -a /etc/fstab"
        /\ inv[t].log[13].cmd.cmd = "lsblk"

\* the positions of the newlines of s
Newlines(s) == {i \in 1..Len(s) : s[i] = "\n"}

\* the number of lines of s: one for each newline, and one for what follows
\* the last newline if anything does
NumLines(s) ==
    Cardinality(Newlines(s)) + (IF s # <<>> /\ s[Len(s)] # "\n" THEN 1 ELSE 0)

\* the position of the k-th newline of s
NthNewline(s, k) ==
    CHOOSE i \in Newlines(s) : Cardinality({j \in Newlines(s) : j <= i}) = k

\* the k-th line of s, without its newline
Line(s, k) ==
    SubSeq(s, IF k = 1 THEN 1 ELSE NthNewline(s, k - 1) + 1,
              IF k <= Cardinality(Newlines(s)) THEN NthNewline(s, k) - 1 ELSE Len(s))

\* C24: get_partitions(device) issues the single command
\* `lsblk -o KNAME <device>` and returns the set of the trimmed lines of its
\* output after the first two; for the lines KNAME, foobar, foo, bar, baz it
\* returns {foo, bar, baz}, and for two lines or fewer the empty set.
C24_Partitions ==
    \A t \in Callers :
        HelperOf(t, "get_partitions") =>
            LET L == inv[t].log
                a == inv[t].arg
            IN  /\ Len(L) <= 1
                /\ \A i \in 1..Len(L) :
                      /\ L[i].call = "run"
                      /\ L[i].cmd = Command("lsblk -o KNAME " \o a.device, FALSE, a.dry_run)
                /\ inv[t].pc = "done" =>
                      /\ Len(L) = 1
                      /\ IsErr(L[1].res) => inv[t].res = L[1].res
                      /\ ~IsErr(L[1].res) =>
                            LET out == L[1].res.stdout
                            IN  /\ inv[t].res =
                                      OkSet({Trimmed(Line(out, k)) : k \in 3..NumLines(out)})
                                /\ NumLines(out) <= 2 => inv[t].res.set = {}
                                /\ out = TestKname =>
                                      inv[t].res.set = {<<"f", "o", "o">>, <<"b", "a", "r">>,
                                                        <<"b", "a", "z">>}

\* get_partitions returned {foo, bar, baz} for the output of the tests, and
\* the name with white space around it for another output
C24_Witness ==
    \E t \in Callers :
        /\ HelperOf(t, "get_partitions")
        /\ inv[t].pc = "done"
        /\ inv[t].log[1].res = Ok(TestKname, <<>>)
        /\ inv[t].log[1].cmd.cmd = "lsblk -o KNAME /dev/foobar"
        /\ inv[t].res = OkSet({<<"f", "o", "o">>, <<"b", "a", "r">>, <<"b", "a", "z">>})

\* get_partitions trimmed the third line ` a ` of an output
C24_TrimWitness ==
    \E t \in Callers :
        /\ HelperOf(t, "get_partitions")
        /\ inv[t].pc = "done"
        /\ inv[t].log[1].res = Ok(<<"a", "\n", "a", "\n", " ", "a", " ">>, <<>>)
        /\ inv[t].res = OkSet({<<"a">>})

\* the positions where a field of the line l starts: a character that is not
\* white space, at the start or after white space
FieldStarts(l) ==
    {i \in 1..Len(l) : l[i] \notin Whitespace /\ (i = 1 \/ l[i - 1] \in Whitespace)}

NumFields(l) == Cardinality(FieldStarts(l))

\* the k-th white-space-separated field of the line l
Field(l, k) ==
    LET from == CHOOSE i \in FieldStarts(l) :
                    Cardinality({j \in FieldStarts(l) : j <= i}) = k
        to == CHOOSE i \in from..Len(l) :
                    /\ \A j \in from..i : l[j] \notin Whitespace
                    /\ i = Len(l) \/ l[i + 1] \in Whitespace
    IN  SubSeq(l, from, to)

\* the numbers of the lines of out that give a pair: not the header, two
\* fields or more, and no earlier such line with the same first field
PairLines(out) ==
    {k \in 2..NumLines(out) :
        /\ NumFields(Line(out, k)) >= 2
        /\ \A j \in 2..(k - 1) :
              NumFields(Line(out, j)) >= 2 =>
                  Field(Line(out, j), 1) # Field(Line(out, k), 1)}

\* C25: get_mounted_devs returns, in the order of the output, the pair
\* (device, mountpoint) of every line after the header that has two
\* white-space-separated fields or more and is the first such line for its
\* device; a line with a device and no mountpoint gives nothing.
C25_MountedDevs ==
    \A t \in Callers :
        (HelperOf(t, "get_mounted_devs") /\ inv[t].pc = "done") =>
            LET L == inv[t].log
            IN  /\ Len(L) = 1
                /\ L[1].cmd = Command("lsblk -o KNAME,MOUNTPOINT", FALSE, inv[t].arg.dry_run)
                /\ IsErr(L[1].res) => inv[t].res = L[1].res
                /\ ~IsErr(L[1].res) =>
                      LET out == L[1].res.stdout
                          Q == PairLines(out)
                          v == inv[t].res.vec
                      IN  /\ inv[t].res.tag = "Vec"
                          /\ Len(v) = Cardinality(Q)
                          /\ \A k \in Q :
                                LET i == Cardinality({j \in Q : j <= k})
                                IN  v[i] = <<Field(Line(out, k), 1), Field(Line(out, k), 2)>>

\* get_mounted_devs returned (foo, /mnt/foo), (bar, /mnt/bar) for the output
\* of the tests, which has lines without a mountpoint
C25_Witness ==
    \E t \in Callers :
        /\ HelperOf(t, "get_mounted_devs")
        /\ inv[t].pc = "done"
        /\ inv[t].log[1].res = Ok(TestKnameMountpoint, <<>>)
        /\ inv[t].res =
              OkVec(<< <<<<"f", "o", "o">>, <<"/", "m", "n", "t", "/", "f", "o", "o">>>>,
                       <<<<"b", "a", "r">>, <<"/", "m", "n", "t", "/", "b", "a", "r">>>> >>)

\* get_mounted_devs kept the first of two lines for the device a
C25_DuplicateWitness ==
    \E t \in Callers :
        /\ HelperOf(t, "get_mounted_devs")
        /\ inv[t].pc = "done"
        /\ ~IsErr(inv[t].log[1].res)
        /\ inv[t].log[1].res.stdout =
              <<"a", "\n", "a", " ", "m", "\n", "a", " ", " ", "n", " ", "x", "\n">>
        /\ inv[t].res = OkVec(<< <<<<"a">>, <<"m">>>> >>)

\* the helpers that construct a command
CommandHelpers == OneArgHelpers \cup ListHelpers

\* what the format string of the helper named f has before and after its
\* argument
FormatAround(f) ==
    CASE f = "dpkg_install" -> <<"sudo dpkg -i ", "">>
      [] f = "apt_install" -> <<"sudo apt-get -y install ", "">>
      [] f = "rpm_install" -> <<"sudo rpm -ivh ", "">>
      [] f = "yum_install" -> <<"sudo yum install -y ", "">>
      [] f = "set_cpu_scaling_governor" -> <<"sudo cpupower frequency-set -g ", "">>
      [] f = "swapoff" -> <<"sudo swapoff ", "">>
      [] f = "swapon" -> <<"sudo swapon ", "">>
      [] f = "add_to_group" -> <<"sudo usermod -aG ", " " \o Backtick \o "whoami" \o Backtick>>
      [] f = "write_gpt" -> <<"sudo parted -a optimal ", " -s -- mklabel gpt">>
      [] f = "create_partition" ->
            <<"sudo parted -a optimal ", " -s -- mkpart primary 0% 100%">>

\* the argument as it is written into the text: a list is written with a
\* space between its elements
Written(f, a) ==
    IF f \in OneArgHelpers THEN a
    ELSE CASE Len(a) = 0 -> ""
           [] Len(a) = 1 -> a[1]
           [] Len(a) = 2 -> a[1] \o " " \o a[2]

\* C26: every helper that constructs a command returns the command
\* SshCommand::new gives for its formatted text, every flag at its default (no
\* cwd, no bash, no allow_error, not dry-run, pty requested), except
\* add_to_group, which also sets use_bash; dpkg_install("foobar") is the
\* command `sudo dpkg -i foobar` with all flags false.
C26_HelperCommands ==
    \A t \in Callers :
        (inv[t].kind = "helper" /\ inv[t].arg.fn \in CommandHelpers) =>
            LET f == inv[t].arg.fn
                a == inv[t].arg.a
                c == inv[t].cmd
            IN  /\ c.cmd = FormatAround(f)[1] \o Written(f, a) \o FormatAround(f)[2]
                /\ c.cwd = None
                /\ c.use_bash <=> f = "add_to_group"
                /\ ~c.allow_error
                /\ ~c.dry_run
                /\ ~c.no_pty
                /\ (f = "dpkg_install" /\ a = "foobar") =>
                      c = Command("sudo dpkg -i foobar", FALSE, FALSE)

\* dpkg_install("foobar") was called and returned `sudo dpkg -i foobar`
C26_Witness ==
    \E t \in Callers :
        /\ inv[t].kind = "helper"
        /\ inv[t].arg.fn = "dpkg_install"
        /\ inv[t].arg.a = "foobar"
        /\ inv[t].cmd = Command("sudo dpkg -i foobar", FALSE, FALSE)

\* add_to_group("foobar") was called and returned a command that uses bash
C26_BashWitness ==
    \E t \in Callers :
        /\ inv[t].kind = "helper"
        /\ inv[t].arg.fn = "add_to_group"
        /\ inv[t].arg.a = "foobar"
        /\ inv[t].cmd.use_bash

\* apt_install(["foo", "bar"]) was called
C26_ListWitness ==
    \E t \in Callers :
        /\ inv[t].kind = "helper"
        /\ inv[t].arg.fn = "apt_install"
        /\ inv[t].cmd = Command("sudo apt-get -y install foo bar", FALSE, FALSE)

----------------------------------------------------------------------------
(* The read loops *)

RECURSIVE Flatten(_)
\* the bytes of the chunks one after the other
Flatten(chunks) ==
    IF chunks = <<>> THEN <<>> ELSE Head(chunks) \o Flatten(Tail(chunks))

RECURSIVE Utf8(_)
\* the bytes of a String
Utf8(str) ==
    IF str = <<>> THEN <<>>
    ELSE (CASE Head(str) = EACUTE -> <<LEAD, CONT>>
            [] Head(str) = REPLACEMENT -> <<"xEF", "xBF", "xBD">>
            [] OTHER -> <<Head(str)>>)
         \o Utf8(Tail(str))

\* the command of the slot was executed and the procedure returned its output
Completed(x) ==
    /\ inv[x].kind \in {"run", "task"}
    /\ inv[x].pc = "done"
    /\ inv[x].res.tag = "Ok"
    /\ ~inv[x].cmd.dry_run

\* the chunk is text: UTF-8 on its own, and its last byte is not zero
TextChunk(chunk) == ValidUtf8(chunk) /\ chunk[Len(chunk)] # NUL

\* C27 as stated, for src/spurs/src/ssh.rs: the captured stdout and stderr of
\* a completed command are exactly the bytes the reads delivered, in order,
\* whatever the lengths and the contents of the chunks, zero bytes at the end
\* of a chunk included.
C27_Original ==
    \A x \in Slots :
        (rev = "mid" /\ Completed(x)) =>
            /\ Utf8(inv[x].res.stdout) = Flatten(inv[x].script.out)
            /\ Utf8(inv[x].res.stderr) = Flatten(inv[x].script.err)

\* C27, what holds: the captured stdout and stderr of a completed command
\* are the decoded chunks in order, each without the zero bytes at its end;
\* they are exactly the bytes delivered when every chunk is UTF-8 on its own
\* and does not end in a zero byte.
C27_CapturedText ==
    \A x \in Slots :
        Completed(x) =>
            LET out == inv[x].script.out
                err == inv[x].script.err
            IN  /\ inv[x].res.stdout = Captured(out)
                /\ inv[x].res.stderr = Captured(err)
                /\ (\A i \in 1..Len(out) : TextChunk(out[i])) =>
                      Utf8(inv[x].res.stdout) = Flatten(out)
                /\ (\A i \in 1..Len(err) : TextChunk(err[i])) =>
                      Utf8(inv[x].res.stderr) = Flatten(err)

\* a command completed whose stdout came as a chunk with a zero byte inside
\* and a second chunk, and was captured byte for byte
C27_Witness ==
    \E x \in Slots :
        /\ Completed(x)
        /\ inv[x].script.out = << <<NUL, "o">>, <<"o">> >>
        /\ inv[x].res.stdout = <<NUL, "o", "o">>

\* a command completed whose stdout came as a chunk ending in a zero byte: the
\* zero byte is not in the captured text
C27_LostZero ==
    \E x \in Slots :
        /\ rev = "mid"
        /\ Completed(x)
        /\ inv[x].script.out = << <<"o", NUL>>, <<"o">> >>
        /\ inv[x].res.stdout = <<"o", "o">>

\* a command completed whose stdout was UTF-8 with a character split between
\* two reads: two U+FFFD are captured instead of the character
C27_SplitCharacter ==
    \E x \in Slots :
        /\ rev = "mid"
        /\ Completed(x)
        /\ inv[x].script.out = <<SplitChunk, <<CONT, "o">> >>
        /\ ValidUtf8(Flatten(inv[x].script.out))
        /\ SubSeq(inv[x].res.stdout, BufSize, BufSize + 2) =
              <<REPLACEMENT, REPLACEMENT, "o">>

\* the number of bytes of the chunks
RECURSIVE TotalLen(_)
TotalLen(chunks) ==
    IF chunks = <<>> THEN 0 ELSE Len(Head(chunks)) + TotalLen(Tail(chunks))

\* C28: the text appended for a chunk is the text of that chunk read into a
\* zeroed buffer: no byte an earlier read left in the buffer is in it, also
\* when the read returns fewer bytes than the one before, and the first chunk
\* of stderr holds nothing of stdout.
C28_NoStaleBytes ==
    \A x \in Slots :
        (inv[x].kind \in {"run", "task"} /\ ~inv[x].cmd.dry_run) =>
            LET out == inv[x].script.out
                err == inv[x].script.err
                n == inv[x].nread
            IN  /\ inv[x].pc = "rd_out" =>
                      /\ inv[x].stdout = Captured(SubSeq(out, 1, n))
                      /\ Len(inv[x].stdout) <= TotalLen(SubSeq(out, 1, n))
                /\ inv[x].pc = "rd_err" =>
                      /\ inv[x].stdout = Captured(out)
                      /\ inv[x].stderr = Captured(SubSeq(err, 1, n))
                      /\ Len(inv[x].stderr) <= TotalLen(SubSeq(err, 1, n))
                /\ Completed(x) =>
                      /\ Len(inv[x].res.stdout) <= TotalLen(out)
                      /\ Len(inv[x].res.stderr) <= TotalLen(err)

\* two bytes were read from stdout, then one byte, then one byte from stderr,
\* and each text is as long as its chunk
C28_Witness ==
    \E x \in Slots :
        /\ Completed(x)
        /\ inv[x].script.out = << <<"o", "o">>, <<"o">> >>
        /\ inv[x].script.err = << <<"o">> >>
        /\ inv[x].res = Ok(<<"o", "o", "o">>, <<"o">>)

\* one of the chunks is not UTF-8 on its own
SomeInvalid(chunks) == \E i \in 1..Len(chunks) : ~ValidUtf8(chunks[i])

\* the procedure returned after a chunk that is not UTF-8 was read
ReadInvalid(x) ==
    /\ inv[x].kind \in {"run", "task"}
    /\ inv[x].pc = "done"
    /\ Has(inv[x].log, "exec")
    /\ SomeInvalid(inv[x].script.out) \/ SomeInvalid(inv[x].script.err)

\* C29 as stated: in every revision a chunk that is not UTF-8 does not make
\* the procedure fail or panic: the exit status is still read.
C29_Original ==
    \A x \in Slots :
        ReadInvalid(x) => inv[x].res.tag = "Ok" /\ ExitRead(x)

\* C29, what holds: in src/spurs/src/ssh.rs and src/spurs/src/lib.rs a chunk
\* that is not UTF-8, a character split between two chunks included, does not
\* make the procedure fail or panic; U+FFFD is captured for each such byte
\* and the exit status is still read.
C29_Permissive ==
    \A x \in Slots :
        (rev # "old" /\ ReadInvalid(x)) =>
            /\ inv[x].res.tag = "Ok"
            /\ ExitRead(x)
            /\ SomeInvalid(inv[x].script.out) =>
                  Has(inv[x].res.stdout, REPLACEMENT)
            /\ SomeInvalid(inv[x].script.err) =>
                  Has(inv[x].res.stderr, REPLACEMENT)

\* in a later revision a command completed after a chunk of 256 bytes that
\* ends in the first byte of a character
C29_Witness ==
    \E x \in Slots :
        /\ rev = "mid"
        /\ ReadInvalid(x)
        /\ inv[x].script.out # <<>>
        /\ inv[x].script.out[1] = SplitChunk
        /\ inv[x].res.tag = "Ok"
        /\ ExitRead(x)
        /\ inv[x].res.stdout[BufSize] = REPLACEMENT

\* in src/src/ssh.rs the thread panicked on a chunk that is not UTF-8
C29_OldPanics ==
    \E x \in Slots :
        /\ rev = "old"
        /\ ReadInvalid(x)
        /\ inv[x].res = Panic
        /\ lock[inv[x].sess] = Poisoned

----------------------------------------------------------------------------
(* reconnect and the shells of spawn *)

\* the thread is in reconnect, about to take exclusive access to the session
\* of the shell
TakesSession(t) ==
    /\ inv[t].kind = "reconnect"
    /\ inv[t].pc = "rc_install"
    /\ inv[t].local.authed
    /\ rev # "old"

\* the task of slot k has not finished
Running(k) == inv[k].kind = "task" /\ inv[k].pc # "done"

\* C30 as stated: when reconnect takes exclusive access to the session of its
\* shell no other thread holds a reference to that session, and reconnect never
\* panics, also on the shell spawn returned while the spawned command runs.
C30_Original ==
    \A t \in Callers :
        /\ TakesSession(t) => ~ArcShared(shells[inv[t].shell].sess)
        /\ (inv[t].kind = "reconnect" /\ inv[t].pc = "done") =>
              inv[t].res # Panic

\* C30, what holds: the session of the shell the caller constructed is never
\* shared with a task, and in src/spurs/src/lib.rs, where join hands out the
\* shell of the task, no session is; a reconnect that panics is a reconnect of
\* src/spurs/src/ssh.rs on the shell spawn returned.
C30_OwnShellExclusive ==
    \A t \in Callers :
        /\ (TakesSession(t) /\ (inv[t].shell = 0 \/ rev = "new")) =>
              ~ArcShared(shells[inv[t].shell].sess)
        /\ (TakesSession(t) /\ inv[t].shell \in Tasks
              /\ ~Running(inv[t].shell)) =>
              ~ArcShared(shells[inv[t].shell].sess)
        /\ (inv[t].kind = "reconnect" /\ inv[t].pc = "done"
              /\ inv[t].res = Panic) =>
              rev = "mid" /\ inv[t].shell \in Tasks

\* reconnect replaced the session of the caller's shell while a spawned
\* command was running
C30_Witness ==
    \E t \in Callers, k \in Tasks :
        /\ rev = "mid"
        /\ inv[t].kind = "reconnect"
        /\ inv[t].pc = "done"
        /\ inv[t].shell = 0
        /\ inv[t].res = OkUnit
        /\ Running(k)

\* reconnect panicked on the shell that spawn returned, whose command was still
\* running
C30_SpawnedShellPanics ==
    \E t \in Callers :
        /\ rev = "mid"
        /\ inv[t].kind = "reconnect"
        /\ inv[t].pc = "done"
        /\ inv[t].shell \in Tasks
        /\ Running(inv[t].shell)
        /\ inv[t].res = Panic

\* in src/spurs/src/lib.rs reconnect replaced the session of the shell that
\* join returned
C30_JoinedShellReconnects ==
    \E t \in Callers :
        /\ rev = "new"
        /\ inv[t].kind = "reconnect"
        /\ inv[t].pc = "done"
        /\ inv[t].shell \in Tasks
        /\ inv[t].res = OkUnit

----------------------------------------------------------------------------
(* The command a task captures *)

\* the shell's dry-run mode at the spawn call was on, or the command given to
\* spawn had its dry_run flag set
DryAtSpawn(k) == inv[k].mode \/ inv[k].orig.dry_run

\* C31: the command a spawned task holds is a dry run exactly if the dry-run
\* mode of the shell was on when spawn was called or the command given to spawn
\* had its dry_run flag set; this stays so whatever the mode of the shell is
\* set to afterwards, and the task calls exec only if that decision was no.
C31_SpawnFixesDryRun ==
    \A k \in Tasks :
        inv[k].kind = "task" =>
            /\ inv[k].cmd.dry_run = DryAtSpawn(k)
            /\ Has(inv[k].log, "exec") => ~DryAtSpawn(k)
            /\ inv[k].pc \in {"dry_close", "dry_wait"} => DryAtSpawn(k)
            /\ inv[k].pc \in {"pty", "exec", "rd_out"} => ~DryAtSpawn(k)

\* a command without the flag was spawned with the mode off, the mode was
\* switched on before the task took the lock, and the task went on to exec
C31_Witness ==
    \E k \in Tasks :
        /\ inv[k].kind = "task"
        /\ ~inv[k].mode
        /\ ~inv[k].orig.dry_run
        /\ shells[inv[k].of].dry_run_mode
        /\ inv[k].pc = "rd_out"
        /\ ~inv[k].cmd.dry_run

\* a command was spawned with the mode on, the mode was switched off while the
\* task had not taken the lock
C31_WitnessOn ==
    \E k \in Tasks :
        /\ inv[k].kind = "task"
        /\ inv[k].mode
        /\ ~inv[k].orig.dry_run
        /\ ~shells[inv[k].of].dry_run_mode
        /\ inv[k].pc = "lock"
        /\ inv[k].cmd.dry_run

----------------------------------------------------------------------------
(* Channels *)

\* the calls made on the channel stopped with the return of the procedure: the
\* last one is the call that failed, or the last call of the branch taken
LogClosed(x) ==
    LET L == inv[x].log
        r == inv[x].res
    IN  CASE r.tag = "SshError" ->
               IF r = SshErr("channel_session") THEN L = <<>>
               ELSE L # <<>> /\ r = SshErr(L[Len(L)])
          [] r.tag \in {"Ok", "NonZeroExit"} ->
               /\ L # <<>>
               /\ L[Len(L)] = IF inv[x].cmd.dry_run THEN "wait_close" ELSE "exit_status"
          [] OTHER -> TRUE

\* C32: a run or a task makes its channel calls on the one channel it opened:
\* at most one exec is issued on it, the channel is entered only by opening it
\* at the start of the call, each step adds one call to it, and once the
\* procedure has returned no call is made on it: the calls of the thread start
\* over with no channel.
C32_OneCommandPerChannel ==
    /\ [](\A x \in Slots :
            inv[x].kind \in {"run", "task"} =>
                /\ Count(inv[x].log, "exec") <= 1
                /\ inv[x].log # <<>> => inv[x].script # NoScript
                /\ inv[x].pc = "done" => LogClosed(x))
    /\ [][\A x \in Slots :
            /\ (InChannel(x)' /\ ~InChannel(x)) =>
                  /\ inv[x].pc = "chan"
                  /\ inv[x].log = <<>>
                  /\ inv[x].script = NoScript
            /\ inv'[x].log # inv[x].log =>
                  \/ /\ InChannel(x)
                     /\ Len(inv'[x].log) = Len(inv[x].log) + 1
                     /\ SubSeq(inv'[x].log, 1, Len(inv[x].log)) = inv[x].log
                  \/ /\ AtRest(x)
                     /\ ~InChannel(x)'
                     /\ inv'[x].log = <<>>
                     /\ inv'[x].script = NoScript]_vars

\* a run returned after an exec that failed, and a task returned Ok after its
\* one exec
C32_Witness ==
    \E t \in Callers, k \in Tasks :
        /\ inv[t].kind = "run"
        /\ inv[t].pc = "done"
        /\ inv[t].res = SshErr("exec")
        /\ Count(inv[t].log, "exec") = 1
        /\ inv[k].kind = "task"
        /\ inv[k].pc = "done"
        /\ inv[k].res.tag = "NonZeroExit"
        /\ Count(inv[k].log, "exec") = 1

----------------------------------------------------------------------------
(* Failures inside format_partition_as_ext4 *)

\* the command appends a line to /etc/fstab
AppendsToFstab(c) ==
    \E uuid \in {Text(Trimmed(o)) : o \in BlkidOutputs}, mount \in {"/mnt/point/", "/m"} :
        c.cmd = FstabCommand(uuid, mount)

\* C33: when a run issued by format_partition_as_ext4 returns an error it is
\* the last call the helper makes and the helper returns that error as it is;
\* a line is appended to /etc/fstab only as the twelfth command, after the
\* eleven commands before it, the blkid lookup included, returned Ok.
C33_FirstFailureStops ==
    \A t \in Callers :
        HelperOf(t, "format_partition_as_ext4") =>
            LET L == inv[t].log
            IN  /\ \A i \in 1..Len(L) :
                      /\ IsErr(L[i].res) =>
                            /\ i = Len(L)
                            /\ inv[t].pc = "done"
                            /\ inv[t].res = L[i].res
                      /\ AppendsToFstab(L[i].cmd) =>
                            /\ i = 12
                            /\ \A j \in 1..11 : L[j].res.tag = "Ok"
                /\ (inv[t].pc = "done" /\ Len(L) < 13) =>
                      IsErr(inv[t].res) /\ inv[t].res = L[Len(L)].res
                /\ inv[t].pc # "done" => inv[t].res = NoResult

\* the blkid lookup failed with NonZeroExit: the helper returned that error
\* after eleven commands
C33_Witness ==
    \E t \in Callers :
        /\ HelperOf(t, "format_partition_as_ext4")
        /\ inv[t].pc = "done"
        /\ Len(inv[t].log) = BlkidAt
        /\ inv[t].log[BlkidAt].res = NonZeroExit(S_ls, 1)
        /\ inv[t].res = NonZeroExit(S_ls, 1)

\* the fourth command failed with an SSH error: the helper returned it after
\* four commands
C33_EarlyWitness ==
    \E t \in Callers :
        /\ HelperOf(t, "format_partition_as_ext4")
        /\ inv[t].pc = "done"
        /\ Len(inv[t].log) = 4
        /\ inv[t].res = SshErr("run")

----------------------------------------------------------------------------
(* get_unpartitioned_devs *)

\* the trimmed lines of the output from the n-th on
LinesFrom(out, n) == {Trimmed(Line(out, k)) : k \in n..NumLines(out)}

\* a comes before b in the order of str: a is a proper prefix of b, or where
\* they first differ the character of a has the smaller code point
Precedes(a, b) ==
    \E k \in 1..Len(b) :
        /\ Len(a) >= k - 1
        /\ SubSeq(a, 1, k - 1) = SubSeq(b, 1, k - 1)
        /\ Len(a) = k - 1 \/ CodePoint(a[k]) < CodePoint(b[k])

\* the command that asks for the partitions of device d
PartitionsCommand(d, dry) == Command("lsblk -o KNAME /dev/" \o Text(d), FALSE, dry)

Dev_bar == <<"b", "a", "r">>
Dev_baz == <<"b", "a", "z">>
Dev_foo == <<"f", "o", "o">>
Dev_foobar == <<"f", "o", "o", "b", "a", "r">>
Dev_sdb == <<"s", "d", "b">>
Dev_sdc == <<"s", "d", "c">>

\* C34: get_unpartitioned_devs runs `lsblk -o KNAME`, takes the trimmed lines
\* after the first as the devices, then asks for the partitions of every device
\* once, in the order of the names; if no call failed it returns exactly the
\* devices that have no partitions and are a partition of no device listed; for
\* the listing foobar, foo, bar, baz, sdb, sdc of the tests, foobar having the
\* partitions foo, bar and baz, it asks for bar, baz, foo, foobar, sdb, sdc and
\* returns {sdb, sdc}.
C34_UnpartitionedDevs ==
    \A t \in Callers :
        (HelperOf(t, "get_unpartitioned_devs") /\ inv[t].log # <<>>) =>
            LET L == inv[t].log
                dry == inv[t].arg.dry_run
                failed == IsErr(L[1].res)
                listed == IF failed THEN {} ELSE LinesFrom(L[1].res.stdout, 2)
                Asked(i) == CHOOSE d \in listed : L[i].cmd = PartitionsCommand(d, dry)
                parts == [i \in 2..Len(L) |->
                             IF IsErr(L[i].res) THEN {} ELSE LinesFrom(L[i].res.stdout, 3)]
                IsPart(d) == \E i \in 2..Len(L) : d \in parts[i]
                HasParts(d) == \E i \in 2..Len(L) : Asked(i) = d /\ parts[i] # {}
                errors == {L[i].res : i \in {j \in 2..Len(L) : IsErr(L[j].res)}}
            IN  /\ L[1] = Called("run", Command("lsblk -o KNAME", FALSE, dry), L[1].res)
                /\ Len(L) <= 1 + Cardinality(listed)
                /\ \A i \in 2..Len(L) :
                      /\ L[i].call = "run"
                      /\ \E d \in listed : L[i].cmd = PartitionsCommand(d, dry)
                      /\ \A j \in 2..(i - 1) : Precedes(Asked(j), Asked(i))
                /\ inv[t].pc # "done" => inv[t].res = NoResult
                /\ inv[t].pc = "done" =>
                      /\ Len(L) = 1 + Cardinality(listed)
                      /\ failed => inv[t].res = L[1].res
                      /\ (~failed /\ errors # {}) => inv[t].res \in errors
                      /\ (~failed /\ errors = {}) =>
                            inv[t].res =
                                OkSet({d \in listed : ~HasParts(d) /\ ~IsPart(d)})
                      /\ (~failed /\ errors = {} /\ L[1].res.stdout = TestKnameAll) =>
                            /\ [i \in 1..6 |-> L[i + 1].cmd] =
                                  [i \in 1..6 |->
                                      PartitionsCommand(
                                          <<Dev_bar, Dev_baz, Dev_foo, Dev_foobar,
                                            Dev_sdb, Dev_sdc>>[i], dry)]
                            /\ parts[5] = {Dev_foo, Dev_bar, Dev_baz}
                            /\ inv[t].res = OkSet({Dev_sdb, Dev_sdc})

\* the helper returned {sdb, sdc} after the listing of the tests and six
\* questions for partitions
C34_Witness ==
    \E t \in Callers :
        /\ HelperOf(t, "get_unpartitioned_devs")
        /\ inv[t].pc = "done"
        /\ Len(inv[t].log) = 7
        /\ inv[t].log[1].res = Ok(TestKnameAll, <<>>)
        /\ inv[t].log[5].res = Ok(TestKname, <<>>)
        /\ inv[t].res = OkSet({Dev_sdb, Dev_sdc})

\* after a listing with a name given twice, sdb was found to have the
\* partition sdc, and the helper returned the devices left
C34_PartitionListed ==
    \E t \in Callers :
        /\ HelperOf(t, "get_unpartitioned_devs")
        /\ inv[t].pc = "done"
        /\ inv[t].log[1].res = Ok(ShortListing, <<>>)
        /\ Len(inv[t].log) = 5
        /\ inv[t].res = OkSet({<<>>, Dev_baz})

\* two questions for partitions failed differently, and every device was asked
C34_TwoErrors ==
    \E t \in Callers :
        /\ HelperOf(t, "get_unpartitioned_devs")
        /\ inv[t].pc = "done"
        /\ Len(inv[t].log) = 7
        /\ inv[t].log[2].res = SshErr("run")
        /\ inv[t].log[3].res = NonZeroExit(S_ls, 1)
        /\ inv[t].res = NonZeroExit(S_ls, 1)

----------------------------------------------------------------------------
(* reboot as a dry run *)

\* C35: reboot called with dry_run true never sleeps and never calls
\* reconnect: it runs `sudo reboot` and then `whoami`, both with the dry_run
\* flag set, whatever the first run returned, makes no other call, and returns
\* what the run of `whoami` decides.
C35_DryReboot ==
    \A t \in Callers :
        (HelperOf(t, "reboot") /\ inv[t].arg.dry_run) =>
            LET L == inv[t].log
                cmds == <<Command("sudo reboot", FALSE, TRUE),
                          Command("whoami", FALSE, TRUE)>>
            IN  /\ inv[t].pc \in {"reboot_run", "reboot_whoami", "done"}
                /\ Len(L) <= 2
                /\ \A i \in 1..Len(L) : L[i].call = "run" /\ L[i].cmd = cmds[i]
                /\ inv[t].pc = "reboot_run" <=> Len(L) = 0
                /\ inv[t].pc = "reboot_whoami" <=> Len(L) = 1
                /\ inv[t].pc = "done" =>
                      /\ Len(L) = 2
                      /\ inv[t].res = IF IsErr(L[2].res) THEN L[2].res ELSE OkUnit

\* a dry-run reboot returned Ok after two runs, the first of which failed
C35_Witness ==
    \E t \in Callers :
        /\ HelperOf(t, "reboot")
        /\ inv[t].arg.dry_run
        /\ inv[t].pc = "done"
        /\ inv[t].res = OkUnit
        /\ Len(inv[t].log) = 2
        /\ IsErr(inv[t].log[1].res)
        /\ inv[t].log[2].cmd = Command("whoami", FALSE, TRUE)

----------------------------------------------------------------------------
(* The lock on the return paths *)

\* the call of the slot returned a value, Ok or Err
ReturnedValue(x) ==
    /\ inv[x].kind \in {"run", "task"}
    /\ inv[x].pc = "done"
    /\ inv[x].res.tag \in {"Ok", "SshError", "NonZeroExit"}

\* C36: the step on which a run or a spawned task returns, Ok or Err at
\* whatever call, leaves the lock of its session unlocked; a lock is held only
\* by a thread that is inside its call, so a thread waiting for the lock of a
\* session on which no call is in progress can take it, unless a thread
\* panicked while holding it.
C36_LockReleased ==
    /\ [](\A x \in Slots :
            /\ ReturnedValue(x) => ~HoldsLock(x)
            /\ HoldsLock(x) => InRun(x)
            /\ (inv[x].pc = "lock"
                  /\ \A y \in Slots : InRun(y) => inv[y].sess # inv[x].sess) =>
                  lock[inv[x].sess] \in {Unlocked, Poisoned})
    /\ [](\A c \in ConnIds :
            /\ lock[c].state = "held" => \E y \in Slots : lock[c] = HeldBy(y)
            /\ lock[c] = Poisoned => rev = "old")
    /\ [][\A x \in Slots :
            (InRun(x) /\ ReturnedValue(x)') => lock'[inv[x].sess] = Unlocked]_vars

\* in src/src/ssh.rs a spawned command returned an error from a failed read,
\* and a run on the same session holds the lock and is reading
C36_Witness ==
    \E t \in Callers, k \in Tasks :
        /\ rev = "old"
        /\ ReturnedValue(k)
        /\ inv[k].res = SshErr("read_stdout")
        /\ inv[t].kind = "run"
        /\ inv[t].sess = inv[k].sess
        /\ inv[t].pc = "rd_out"
        /\ HoldsLock(t)

\* a run returned NonZeroExit and the lock of its session is unlocked
C36_NonZeroExitWitness ==
    \E t \in Callers :
        /\ ReturnedValue(t)
        /\ inv[t].res.tag = "NonZeroExit"
        /\ lock[inv[t].sess] = Unlocked

\* in src/src/ssh.rs a task panicked on a byte that is not UTF-8 while it held
\* the lock, and the run that waited for the lock panicked in turn
C36_PanicWitness ==
    \E t \in Callers, k \in Tasks :
        /\ rev = "old"
        /\ inv[k].kind = "task"
        /\ inv[k].res = Panic
        /\ inv[k].script.out = << <<BAD>> >>
        /\ inv[t].kind = "run"
        /\ inv[t].pc = "done"
        /\ inv[t].res = Panic
        /\ inv[t].script = NoScript
        /\ lock[inv[t].sess] = Poisoned


----------------------------------------------------------------------------
(* Ownership of the shell spawn duplicates *)

\* slot k holds a task that spawn started
Spawned(k) == inv[k].kind = "task"

\* a slot other than t is inside a call that uses session c
UsedByOther(t, c) ==
    \E x \in Slots \ {t} :
        /\ inv[x].kind \in {"run", "task"}
        /\ inv[x].pc # "done"
        /\ inv[x].sess = c

\* C37: in src/spurs/src/lib.rs the shell spawn duplicates has one owner at any
\* time: the task holds it from spawn on, the caller can reach it exactly once
\* join has returned it, join returns it only after the task has finished, and
\* only a join hands it over; each shell has a session of its own, and while a
\* reconnect is in progress on a shell no other thread is inside a call on the
\* session of that shell, so reconnect never panics when it takes the session.
C37_SingleOwner ==
    /\ [](rev = "new" =>
            /\ \A k \in Tasks : Spawned(k) =>
                  /\ shells[k].live <=> inv[k].joined
                  /\ inv[k].joined => inv[k].pc = "done"
                  /\ inv[k].shell = k
                  /\ inv[k].sess = shells[k].sess
            /\ \A k \in Tasks : ~Spawned(k) => ~shells[k].live
            /\ \A s1, s2 \in ShellIds :
                  (shells[s1].made /\ shells[s2].made
                     /\ shells[s1].sess = shells[s2].sess) => s1 = s2
            /\ \A t \in Callers :
                  /\ (inv[t].kind = "reconnect" /\ inv[t].pc # "done") =>
                        /\ shells[inv[t].shell].live
                        /\ ~UsedByOther(t, shells[inv[t].shell].sess)
                        /\ lock[shells[inv[t].shell].sess] = Unlocked
                  /\ (inv[t].kind = "reconnect" /\ inv[t].pc = "done") =>
                        inv[t].res # Panic)
    /\ [][rev = "new" =>
            \A k \in Tasks :
               /\ (~Spawned(k) /\ Spawned(k)') =>
                     /\ shells'[k].made
                     /\ ~shells'[k].live
                     /\ inv'[k].pc # "done"
               /\ (~shells[k].live /\ shells'[k].live) =>
                     \E t \in Callers :
                        /\ inv'[t].kind = "join"
                        /\ inv'[t].task = k
                        /\ inv'[t].res = inv[k].res
                        /\ ~inv[k].joined
                        /\ inv[k].pc = "done"]_vars

\* in src/spurs/src/lib.rs the caller joined a task whose command had run on
\* the remote, and then replaced the session of the shell join returned by a
\* reconnect, while its own shell kept its session
C37_Witness ==
    \E t \in Callers, k \in Tasks :
        /\ rev = "new"
        /\ Spawned(k)
        /\ inv[k].joined
        /\ inv[k].res.tag = "Ok"
        /\ shells[k].live
        /\ inv[t].kind = "reconnect"
        /\ inv[t].pc = "done"
        /\ inv[t].shell = k
        /\ inv[t].res = OkUnit
        /\ session[shells[k].sess].over \in ReconnIds
        /\ session[shells[0].sess].over = 0

\* in src/spurs/src/lib.rs the task runs on its shell, which the caller cannot
\* reach, while the caller reconnects its own shell
C37_TaskOwnsWitness ==
    \E t \in Callers, k \in Tasks :
        /\ rev = "new"
        /\ Spawned(k)
        /\ InChannel(k)
        /\ ~shells[k].live
        /\ inv[t].kind = "reconnect"
        /\ inv[t].pc = "rc_install"
        /\ inv[t].shell = 0


----------------------------------------------------------------------------
(* The session in use after reconnect *)

\* the session shell s holds
SessionOf(s) == session[shells[s].sess]

\* what reconnect does not write of shell s
Identity(s) ==
    <<shells[s].username, shells[s].key, shells[s].remote, shells[s].dry_run_mode>>

\* thread t is in the last step of a reconnect, which returns Ok
Installs(t) ==
    /\ inv[t].kind = "reconnect"
    /\ inv[t].pc = "rc_install"
    /\ inv'[t].pc = "done"
    /\ inv'[t].res = OkUnit

\* the step starts the task of slot k
Spawns(k) == ~Spawned(k) /\ Spawned(k)'

\* the step is the call of run by thread t
CallsRun(t) == AtRest(t) /\ inv'[t].kind = "run" /\ inv'[t].pc = "lock"

\* reconnect returns Ok with the session it made in place of the session of the
\* shell, over the transport it opened, later than any the shell had; only
\* this step changes the session of a shell; no step of a reconnect changes
\* the user name, the key, the remote or the dry-run mode
ReconnectReplaces ==
    /\ \A t \in Callers : Installs(t) =>
          LET s == inv[t].shell
          IN  /\ SessionOf(s)' = inv[t].local
              /\ SessionOf(s)'.authed
              /\ SessionOf(s)'.over = shells'[s].tcp
              /\ SessionOf(s)'.over \in ReconnIds
              /\ SessionOf(s)'.over > SessionOf(s).over
    /\ \A s \in ShellIds :
          (shells[s].made /\ SessionOf(s)' # SessionOf(s)) =>
              \E t \in Callers : Installs(t) /\ inv[t].shell = s
    /\ \A t \in Callers :
          (inv[t].kind = "reconnect" /\ inv[t].pc # "done") =>
              Identity(inv[t].shell)' = Identity(inv[t].shell)

\* a run opens its channel on the session its shell holds
RunUsesSession ==
    \A t \in Callers :
        (inv[t].kind = "run" /\ inv[t].pc # "done") =>
            /\ inv[t].sess = shells[inv[t].shell].sess
            /\ inv[t].shell = inv[t].of

\* C38 as stated: after a successful reconnect every run and every spawn issued
\* on the shell opens its channel on the session that reconnect established,
\* and reconnect leaves user name, key, remote and dry-run mode as they were.
C38_Original ==
    /\ []RunUsesSession
    /\ [][/\ ReconnectReplaces
          /\ \A t \in Callers :
                (CallsRun(t) /\ SessionOf(inv'[t].of).over \in ReconnIds) =>
                    session[inv'[t].sess] = SessionOf(inv'[t].of)
          /\ \A k \in Tasks :
                (Spawns(k) /\ SessionOf(inv'[k].of).over \in ReconnIds) =>
                    session'[inv'[k].sess] = SessionOf(inv'[k].of)]_vars

\* C38, what holds: after a successful reconnect every run issued on the shell
\* opens its channel on the session that reconnect established; so does every
\* spawn of src/src/ssh.rs, while a spawn of src/spurs/src/ssh.rs and of
\* src/spurs/src/lib.rs opens its channel on a session of its own, made at the
\* spawn for the same user, key and remote over a transport of its own, which
\* is no session the shell ever held; reconnect leaves user name, key, remote
\* and dry-run mode as they were.
C38_SessionAfterReconnect ==
    /\ []RunUsesSession
    /\ [][/\ ReconnectReplaces
          /\ \A t \in Callers : CallsRun(t) =>
                session[inv'[t].sess] = SessionOf(inv'[t].of)
          /\ \A k \in Tasks : Spawns(k) =>
                IF rev = "old"
                THEN session'[inv'[k].sess] = SessionOf(inv'[k].of)
                ELSE /\ inv'[k].sess = k
                     /\ session'[k] = [Handshook(k) EXCEPT !.authed = TRUE]
                     /\ session[k] = NoSession
                     /\ \A s \in ShellIds : shells[s].made => SessionOf(s).over # k
                     /\ shells'[k].username = shells[inv'[k].of].username
                     /\ shells'[k].key = shells[inv'[k].of].key
                     /\ shells'[k].remote = shells[inv'[k].of].remote]_vars

\* a run issued after a successful reconnect of its shell has its channel open
\* on the session that reconnect established
C38_Witness ==
    \E t \in Callers :
        /\ inv[t].kind = "run"
        /\ inv[t].of = 0
        /\ InChannel(t)
        /\ session[inv[t].sess].over \in ReconnIds
        /\ session[inv[t].sess].over = shells[0].tcp
        /\ Identity(0) = <<"markm", "id_rsa", "myhost:22", FALSE>>

\* in src/src/ssh.rs a task spawned after a successful reconnect has its channel
\* open on the session that reconnect established
C38_OldSpawnWitness ==
    \E k \in Tasks :
        /\ rev = "old"
        /\ Spawned(k)
        /\ InChannel(k)
        /\ session[inv[k].sess].over \in ReconnIds
        /\ inv[k].sess = shells[0].sess

\* in src/spurs/src/ssh.rs a task spawned after a successful reconnect has its
\* channel open on a session that is not the one reconnect established
C38_OwnSessionWitness ==
    \E k \in Tasks :
        /\ rev = "mid"
        /\ Spawned(k)
        /\ inv[k].of = 0
        /\ InChannel(k)
        /\ SessionOf(0).over \in ReconnIds
        /\ session[inv[k].sess].over = k


----------------------------------------------------------------------------
(* Repeated builder calls *)

\* the sequence L without its element at position i
Without(L, i) == SubSeq(L, 1, i - 1) \o SubSeq(L, i + 1, Len(L))

\* the flags that a builder sets and none clears
SetFlags(c) ==
    {f \in {"use_bash", "allow_error", "no_pty"} : c[f]}

\* C39: on every command a thread has built, use_bash, allow_error and no_pty
\* applied twice give the command they give applied once, no builder call
\* clears one of these three flags once it is set, dry_run(a) followed by
\* dry_run(b) gives what dry_run(b) gives, and cwd(p) followed by cwd(q) gives
\* what cwd(q) gives; a command built by calls of which two in a row are calls
\* of the same builder equals the command built without the first of the two.
C39_BuildersIdempotent ==
    /\ [](\A t \in Callers :
            Building(t) =>
                LET c == inv[t].cmd
                    L == inv[t].log
                IN  /\ use_bash(use_bash(c)) = use_bash(c)
                    /\ allow_error(allow_error(c)) = allow_error(c)
                    /\ no_pty(no_pty(c)) = no_pty(c)
                    /\ use_bash(c).use_bash
                    /\ allow_error(c).allow_error
                    /\ no_pty(c).no_pty
                    /\ \A call \in BuilderCalls :
                          SetFlags(c) \subseteq SetFlags(Apply(call, c))
                    /\ \A a, b \in BOOLEAN :
                          /\ dry_run(dry_run(c, a), b) = dry_run(c, b)
                          /\ dry_run(c, b).dry_run = b
                    /\ \A p, q \in BuildDirs :
                          /\ cwd(cwd(c, p), q) = cwd(c, q)
                          /\ cwd(c, q).cwd = Some(q)
                    /\ \A i \in 1..(Len(L) - 1) :
                          L[i][1] = L[i + 1][1] =>
                              c = ApplyAll(Without(L, i),
                                           SshCommand_new(inv[t].arg[1])))
    /\ [][\A t \in Callers :
            (Building(t) /\ Building(t)' /\ Len(inv'[t].log) = Len(inv[t].log) + 1) =>
                SetFlags(inv[t].cmd) \subseteq SetFlags(inv'[t].cmd)]_vars

\* a command was built with allow_error twice and then dry_run(false): it is
\* the command built with allow_error once and dry_run(false)
C39_Witness ==
    \E t \in Callers :
        /\ Building(t)
        /\ inv[t].log = << <<"allow_error">>, <<"allow_error">>, <<"dry_run", FALSE>> >>
        /\ inv[t].cmd = dry_run(allow_error(SshCommand_new(S_ls)), FALSE)
        /\ inv[t].cmd.allow_error

\* a command was built with dry_run(true), then dry_run(false), then cwd: it
\* is not a dry run
C39_LastCallWitness ==
    \E t \in Callers :
        /\ Building(t)
        /\ inv[t].log = << <<"dry_run", TRUE>>, <<"dry_run", FALSE>>, <<"cwd", S_dir>> >>
        /\ ~inv[t].cmd.dry_run
        /\ inv[t].cmd.cwd = Some(S_dir)

====
